---- MODULE Spec2Model ----
(***************************************************************************)
(* Solana Vault Standard: the conversion math engine (svs-1 math.rs), the  *)
(* plain vault ledger (svs-1) and the confidential vault (svs-2).          *)
(*                                                                         *)
(* Integers: the model checker's integers are 32-bit, so u64 is modelled   *)
(* at 30 bits (U64_MAX = 2^30 - 1; sums of two words stay exact) and the   *)
(* u128 intermediate of mul_div is held exactly, as the quotient and       *)
(* remainder of the double-width product by the denominator.               *)
(***************************************************************************)
EXTENDS Integers, Sequences, FiniteSets, TLC

\* ------------------------------------------------------------------------
\* Program constants
\* ------------------------------------------------------------------------
U64_MAX == 1073741823

MAX_DECIMALS == 9

MIN_DEPOSIT_AMOUNT == 1000

DEFAULT_MAXIMUM_PENDING_BALANCE_CREDIT_COUNTER == 65536

\* ------------------------------------------------------------------------
\* Result<u64>
\* ------------------------------------------------------------------------
Ok(v) == [err |-> "Ok", val |-> v]

Err(e) == [err |-> e, val |-> 0]

IsOk(r) == r.err = "Ok"

\* ------------------------------------------------------------------------
\* Conversion math engine (svs-1/src/math.rs)
\* ------------------------------------------------------------------------
Rounding == {"Floor", "Ceiling"}

\* mutant: the offset raised from base 2
checked_pow10_base_two(exp) == Ok(2 ^ exp)

\* 10u64.checked_pow(exp)
RECURSIVE checked_pow10(_)
checked_pow10(exp) ==
    IF exp = 0 THEN Ok(1)
    ELSE LET p == checked_pow10(exp - 1)
         IN IF ~IsOk(p) THEN p
            ELSE IF p.val > U64_MAX \div 10 THEN Err("MathOverflow")
            ELSE Ok(p.val * 10)

\* mutant: the sum wraps at the word size
checked_add_wrapping(a, b) == Ok((a + b) % (U64_MAX + 1))

\* u64::checked_add
checked_add(a, b) == IF a > U64_MAX - b THEN Err("MathOverflow") ELSE Ok(a + b)

\* u64::checked_sub
checked_sub(a, b) == IF b > a THEN Err("MathOverflow") ELSE Ok(a - b)

\* (x + y) for x, y < c, as carry * c + r with r < c
AddMod(x, y, c) ==
    IF x >= c - y THEN [carry |-> 1, r |-> x - (c - y)]
    ELSE [carry |-> 0, r |-> x + y]

\* The u128 product value * numerator, held as q * denom + r with r < denom;
\* big is set when q does not fit in a u64 (q is then not used).
\* (value as u128).checked_mul(numerator as u128) cannot fail: the product
\* of two u64 always fits in a u128.
RECURSIVE WideProduct(_, _, _)
WideProduct(value, numerator, denom) ==
    IF numerator = 0 THEN [q |-> 0, r |-> 0, big |-> FALSE]
    ELSE LET h == WideProduct(value, numerator \div 2, denom)
             odd == numerator % 2 = 1
             d1 == AddMod(h.r, h.r, denom)
             d2 == IF odd THEN AddMod(d1.r, value % denom, denom)
                   ELSE [carry |-> 0, r |-> d1.r]
             add == d1.carry + d2.carry + (IF odd THEN value \div denom ELSE 0)
         IN IF h.big \/ h.q > (U64_MAX - add) \div 2
            THEN [q |-> 0, r |-> d2.r, big |-> TRUE]
            ELSE [q |-> 2 * h.q + add, r |-> d2.r, big |-> FALSE]

\* mutant: Ceiling computed as product / denom
CeilingCarry_truncating(r, denom) == 0

\* Rounding::Ceiling => (product + denom - 1) / denom, which with
\* product = q * denom + r is q + (r + denom - 1) / denom = q + [r > 0]
CeilingCarry(r, denom) == IF r > 0 THEN 1 ELSE 0

\* mutant: the two arms of the match on rounding exchanged
mul_div_arms_swapped(value, numerator, denominator, rounding) ==
    IF ~(denominator > 0) THEN Err("DivisionByZero")
    ELSE LET product == WideProduct(value, numerator, denominator)
             up == IF rounding = "Ceiling" THEN 0
                   ELSE CeilingCarry(product.r, denominator)
         IN IF product.big \/ product.q > U64_MAX - up
            THEN Err("MathOverflow")
            ELSE Ok(product.q + up)

mul_div(value, numerator, denominator, rounding) ==
    IF ~(denominator > 0) THEN Err("DivisionByZero")
    ELSE LET product == WideProduct(value, numerator, denominator)
             up == IF rounding = "Floor" THEN 0
                   ELSE CeilingCarry(product.r, denominator)
         IN IF product.big \/ product.q > U64_MAX - up
            THEN Err("MathOverflow")
            ELSE Ok(product.q + up)

\* mutant: the virtual asset (+ 1) left out of the denominator
convert_to_shares_no_virtual_asset(assets, total_assets, total_shares, decimals_offset, rounding) ==
    LET offset == checked_pow10(decimals_offset)
        virtual_shares == checked_add(total_shares, offset.val)
    IN IF ~IsOk(offset) THEN offset
       ELSE IF ~IsOk(virtual_shares) THEN virtual_shares
       ELSE mul_div(assets, virtual_shares.val, total_assets, rounding)

convert_to_shares(assets, total_assets, total_shares, decimals_offset, rounding) ==
    LET offset == checked_pow10(decimals_offset)
        virtual_shares == checked_add(total_shares, offset.val)
        virtual_assets == checked_add(total_assets, 1)
    IN IF ~IsOk(offset) THEN offset
       ELSE IF ~IsOk(virtual_shares) THEN virtual_shares
       ELSE IF ~IsOk(virtual_assets) THEN virtual_assets
       ELSE mul_div(assets, virtual_shares.val, virtual_assets.val, rounding)

\* mutant: assets quoted against the real supply only, the virtual shares left out
convert_to_assets_no_virtual_shares(shares, total_assets, total_shares, decimals_offset, rounding) ==
    LET offset == checked_pow10(decimals_offset)
        virtual_shares == checked_add(total_shares, 0)
        virtual_assets == checked_add(total_assets, 1)
    IN IF ~IsOk(offset) THEN offset
       ELSE IF ~IsOk(virtual_shares) THEN virtual_shares
       ELSE IF ~IsOk(virtual_assets) THEN virtual_assets
       ELSE mul_div(shares, virtual_assets.val, virtual_shares.val, rounding)

convert_to_assets(shares, total_assets, total_shares, decimals_offset, rounding) ==
    LET offset == checked_pow10(decimals_offset)
        virtual_shares == checked_add(total_shares, offset.val)
        virtual_assets == checked_add(total_assets, 1)
    IN IF ~IsOk(offset) THEN offset
       ELSE IF ~IsOk(virtual_shares) THEN virtual_shares
       ELSE IF ~IsOk(virtual_assets) THEN virtual_assets
       ELSE mul_div(shares, virtual_assets.val, virtual_shares.val, rounding)

\* ------------------------------------------------------------------------
\* State
\* ------------------------------------------------------------------------
VARIABLES
    program,    \* which program owns the vault: "none", "svs1" or "svs2"
    vault,      \* the Vault / ConfidentialVault account
    supply,     \* shares_mint.supply
    assetBal,   \* user_asset_account.amount, per user
    custody,    \* asset_vault.amount
    shareAcct,  \* user_shares_account, per user (with its confidential extension)
    events,     \* the emitted events, oldest first
    last,       \* the last instruction processed and its result
    calc,       \* inputs and result of the last direct call of the math engine
    cycle,      \* the entry/exit cycles one caller has run since they started
    snapshot,   \* what a holder last read of their share account, off-chain
    service     \* the proof backend: its clock, the request in hand, the keys derived

ledgerVars == <<vault, supply, assetBal, custody, shareAcct, events>>

vars == <<program, vault, supply, assetBal, custody, shareAcct, events, last, calc,
          cycle, snapshot, service>>

Users == {"alice", "bob"}

\* a holder of the asset who never calls the vault
Donor == "donor"

\* bound on the length of the event log
MaxEvents == 4

\* the ledger state the handlers work on
Cur ==
    [vault |-> vault, supply |-> supply, assetBal |-> assetBal,
     custody |-> custody, shareAcct |-> shareAcct, events |-> events]

NoVault ==
    [initialized |-> FALSE, authority |-> "none", asset_mint |-> "none",
     shares_mint |-> "none", asset_vault |-> "none", total_assets |-> 0,
     decimals_offset |-> 0, bump |-> "none", paused |-> FALSE, vault_id |-> 0,
     auditor_elgamal_pubkey |-> "none"]

\* a token account of the shares mint without the confidential extension
PlainShareAccount ==
    [amount |-> 0, reallocated |-> FALSE, configured |-> FALSE, pending |-> 0,
     available |-> 0,
     decryptable |-> 0, pending_counter |-> 0, expected_counter |-> 0,
     actual_counter |-> 0]

NoCall ==
    [op |-> "none", caller |-> "none", a |-> 0, b |-> 0, key |-> "none",
     err |-> "Ok", assets |-> 0, shares |-> 0]

NoCalc ==
    [fn |-> "none", x |-> 0, ta |-> 0, ts |-> 0, d |-> 0,
     floor |-> [err |-> "Ok", val |-> 0], ceiling |-> [err |-> "Ok", val |-> 0],
     back |-> [err |-> "Ok", val |-> 0]]

NoCycle ==
    [caller |-> "none", start_assets |-> 0, start_total |-> 0, phase |-> "idle",
     amount |-> 0, completed |-> 0, attempts |-> 0]

\* the proof backend not started
NoService == [started |-> FALSE, now |-> 0]

\* nothing read yet
NoSnapshot == [holder |-> "none", counter |-> 0, total |-> 0]

InitialAssets ==
    [u \in Users \cup {Donor} |->
        IF u = "alice" THEN 2000 ELSE IF u = "bob" THEN 1000 ELSE 500]

\* the ledger before the vault is created
Empty ==
    [vault |-> NoVault, supply |-> 0, assetBal |-> InitialAssets, custody |-> 0,
     shareAcct |-> [u \in Users |-> PlainShareAccount], events |-> <<>>]

\* ------------------------------------------------------------------------
\* Handler results: the error code, the ledger state at the point where the
\* handler returned, and the amounts it computed
\* ------------------------------------------------------------------------
Fail(e, S) == [err |-> e, st |-> S, assets |-> 0, shares |-> 0]

Done(S, assets, shares) == [err |-> "Ok", st |-> S, assets |-> assets, shares |-> shares]

\* ------------------------------------------------------------------------
\* Token program call-outs (SPL Token / Token-2022), at their interface
\* ------------------------------------------------------------------------
\* mutant: the sender debited, the custody account not credited
TransferIn_uncredited(S, user, amount) ==
    IF S.assetBal[user] < amount THEN Fail("TokenInsufficientFunds", S)
    ELSE Done([S EXCEPT !.assetBal[user] = @ - amount], 0, 0)

\* transfer_checked(user_asset_account -> asset_vault)
TransferIn(S, user, amount) ==
    IF S.assetBal[user] < amount THEN Fail("TokenInsufficientFunds", S)
    ELSE Done([S EXCEPT !.assetBal[user] = @ - amount, !.custody = @ + amount], 0, 0)

\* transfer_checked(asset_vault -> user_asset_account), signed by the vault PDA
TransferOut(S, user, amount) ==
    IF S.custody < amount THEN Fail("TokenInsufficientFunds", S)
    ELSE Done([S EXCEPT !.custody = @ - amount, !.assetBal[user] = @ + amount], 0, 0)

\* mutant: the supply raised, the account of the receiver not credited
MintTo_uncredited(S, user, amount) ==
    IF S.supply > U64_MAX - amount THEN Fail("TokenOverflow", S)
    ELSE Done([S EXCEPT !.supply = @ + amount], 0, 0)

\* token_2022::mint_to, signed by the vault PDA
MintTo(S, user, amount) ==
    IF S.supply > U64_MAX - amount THEN Fail("TokenOverflow", S)
    ELSE Done([S EXCEPT !.supply = @ + amount, !.shareAcct[user].amount = @ + amount], 0, 0)

\* mutant: the supply lowered, the account of the holder not debited
Burn_undebited(S, user, amount) ==
    IF S.shareAcct[user].amount < amount THEN Fail("TokenInsufficientFunds", S)
    ELSE Done([S EXCEPT !.supply = @ - amount], 0, 0)

\* token_2022::burn, signed by the user
Burn(S, user, amount) ==
    IF S.shareAcct[user].amount < amount THEN Fail("TokenInsufficientFunds", S)
    ELSE Done([S EXCEPT !.supply = @ - amount, !.shareAcct[user].amount = @ - amount], 0, 0)

\* mutant: the fold-in accepted by an account without the extension
ConfidentialDeposit_unconfigured(S, user, amount) ==
    LET acct == S.shareAcct[user]
    IN IF acct.amount < amount THEN Fail("TokenInsufficientFunds", S)
       ELSE Done([S EXCEPT !.shareAcct[user].amount = @ - amount,
                           !.shareAcct[user].pending = @ + amount,
                           !.shareAcct[user].pending_counter = @ + 1], 0, 0)

\* confidential_transfer::deposit: public -> pending-confidential
ConfidentialDeposit(S, user, amount) ==
    LET acct == S.shareAcct[user]
    IN IF ~acct.configured THEN Fail("TokenInvalidAccountData", S)
       ELSE IF acct.amount < amount THEN Fail("TokenInsufficientFunds", S)
       ELSE IF acct.pending_counter >= DEFAULT_MAXIMUM_PENDING_BALANCE_CREDIT_COUNTER
            THEN Fail("TokenMaximumPendingBalanceCreditCounterExceeded", S)
       ELSE Done([S EXCEPT !.shareAcct[user].amount = @ - amount,
                           !.shareAcct[user].pending = @ + amount,
                           !.shareAcct[user].pending_counter = @ + 1], 0, 0)

\* mutant: the proof contexts never looked at
ConfidentialWithdraw_unproven(S, user, amount, new_decryptable, equality_verified, range_verified) ==
    LET acct == S.shareAcct[user]
    IN IF ~acct.configured THEN Fail("TokenInvalidAccountData", S)
       ELSE IF acct.available < amount THEN Fail("TokenInvalidProof", S)
       ELSE Done([S EXCEPT !.shareAcct[user].available = @ - amount,
                           !.shareAcct[user].amount = @ + amount,
                           !.shareAcct[user].decryptable = new_decryptable], 0, 0)

\* confidential_transfer::withdraw: available-confidential -> public.  The
\* two context accounts hold verified proofs for this account and amount
\* only if the available balance covers the amount.
ConfidentialWithdraw(S, user, amount, new_decryptable, equality_verified, range_verified) ==
    LET acct == S.shareAcct[user]
    IN IF ~acct.configured THEN Fail("TokenInvalidAccountData", S)
       ELSE IF ~equality_verified \/ ~range_verified \/ acct.available < amount
            THEN Fail("TokenInvalidProof", S)
       ELSE Done([S EXCEPT !.shareAcct[user].available = @ - amount,
                           !.shareAcct[user].amount = @ + amount,
                           !.shareAcct[user].decryptable = new_decryptable], 0, 0)

\* mutant: the pending balance of every configured account made available
ApplyPendingBalance_of_every_account(S, user, expected_counter, new_decryptable) ==
    LET acct == S.shareAcct[user]
        applied(other) ==
            IF S.shareAcct[other].configured
            THEN [S.shareAcct[other] EXCEPT !.available = @ + S.shareAcct[other].pending,
                                            !.pending = 0]
            ELSE S.shareAcct[other]
    IN IF ~acct.configured THEN Fail("TokenInvalidAccountData", S)
       ELSE Done([S EXCEPT !.shareAcct =
                     [other \in DOMAIN S.shareAcct |->
                        IF other = user
                        THEN [acct EXCEPT !.available = @ + acct.pending,
                                          !.pending = 0,
                                          !.actual_counter = acct.pending_counter,
                                          !.expected_counter = expected_counter,
                                          !.pending_counter = 0,
                                          !.decryptable = new_decryptable]
                        ELSE applied(other)]], 0, 0)

\* confidential_transfer::apply_pending_balance: pending -> available
ApplyPendingBalance(S, user, expected_counter, new_decryptable) ==
    LET acct == S.shareAcct[user]
    IN IF ~acct.configured THEN Fail("TokenInvalidAccountData", S)
       ELSE Done([S EXCEPT !.shareAcct[user].available = @ + acct.pending,
                           !.shareAcct[user].pending = 0,
                           !.shareAcct[user].actual_counter = acct.pending_counter,
                           !.shareAcct[user].expected_counter = expected_counter,
                           !.shareAcct[user].pending_counter = 0,
                           !.shareAcct[user].decryptable = new_decryptable], 0, 0)

\* reallocate: room for the ConfidentialTransferAccount extension
Reallocate(S, user) == Done([S EXCEPT !.shareAcct[user].reallocated = TRUE], 0, 0)

\* confidential_transfer::configure_account
ConfigureTokenAccount(S, user, decryptable_zero_balance, proof_verified) ==
    LET acct == S.shareAcct[user]
    IN IF acct.configured THEN Fail("TokenExtensionAlreadyInitialized", S)
       ELSE IF ~proof_verified THEN Fail("TokenInvalidProof", S)
       ELSE Done([S EXCEPT !.shareAcct[user].configured = TRUE,
                           !.shareAcct[user].decryptable = decryptable_zero_balance], 0, 0)

\* ------------------------------------------------------------------------
\* Events (events.rs); the vault key is the same in all of them
\* ------------------------------------------------------------------------
VaultInitialized(authority) == [type |-> "VaultInitialized", authority |-> authority]

DepositEvent(user, assets, shares) ==
    [type |-> "Deposit", caller |-> user, owner |-> user,
     assets |-> assets, shares |-> shares]

WithdrawEvent(user, assets, shares) ==
    [type |-> "Withdraw", caller |-> user, receiver |-> user, owner |-> user,
     assets |-> assets, shares |-> shares]

VaultSynced(previous_total, new_total) ==
    [type |-> "VaultSynced", previous_total |-> previous_total, new_total |-> new_total]

VaultStatusChanged(paused) == [type |-> "VaultStatusChanged", paused |-> paused]

AuthorityTransferred(previous_authority, new_authority) ==
    [type |-> "AuthorityTransferred", previous_authority |-> previous_authority,
     new_authority |-> new_authority]

\* mutant: the event dropped
Emit_dropped(S, e) == S

\* emit!(...)
Emit(S, e) == [S EXCEPT !.events = Append(@, e)]

\* ------------------------------------------------------------------------
\* Account constraints
\* ------------------------------------------------------------------------
\* mutant: the constraint on vault.paused left out
NotPaused_unconstrained(S) == TRUE

\* constraint = !vault.paused @ VaultError::VaultPaused
NotPaused(S) == ~S.vault.paused

\* mutant: the constraint on the signer left out
IsAuthority_unconstrained(S, signer) == TRUE

\* constraint = authority.key() == vault.authority @ VaultError::Unauthorized
IsAuthority(S, signer) == signer = S.vault.authority

\* ------------------------------------------------------------------------
\* svs-1 instructions
\* ------------------------------------------------------------------------
\* deposit(assets, min_shares_out)
svs1_deposit(S, user, assets, min_shares_out) ==
    IF ~NotPaused(S) THEN Fail("VaultPaused", S)
    ELSE IF ~(assets > 0) THEN Fail("ZeroAmount", S)
    ELSE IF ~(assets >= MIN_DEPOSIT_AMOUNT) THEN Fail("DepositTooSmall", S)
    ELSE
    LET shares == convert_to_shares(assets, S.vault.total_assets, S.supply,
                                    S.vault.decimals_offset, "Floor")
    IN IF ~IsOk(shares) THEN Fail(shares.err, S)
    ELSE IF ~(shares.val >= min_shares_out) THEN Fail("SlippageExceeded", S)
    ELSE
    LET t == TransferIn(S, user, assets)
    IN IF t.err # "Ok" THEN t ELSE
    LET m == MintTo(t.st, user, shares.val)
    IN IF m.err # "Ok" THEN m ELSE
    LET total == checked_add(m.st.vault.total_assets, assets)
    IN IF ~IsOk(total) THEN Fail(total.err, m.st)
    ELSE Done(Emit([m.st EXCEPT !.vault.total_assets = total.val],
                   DepositEvent(user, assets, shares.val)),
              assets, shares.val)

\* mutant: the assets charged by a mint rounded down
svs1_mint_rounding_down(S, user, shares, max_assets_in) ==
    IF ~NotPaused(S) THEN Fail("VaultPaused", S)
    ELSE IF ~(shares > 0) THEN Fail("ZeroAmount", S)
    ELSE
    LET assets == convert_to_assets(shares, S.vault.total_assets, S.supply,
                                    S.vault.decimals_offset, "Floor")
    IN IF ~IsOk(assets) THEN Fail(assets.err, S)
    ELSE IF ~(assets.val <= max_assets_in) THEN Fail("SlippageExceeded", S)
    ELSE
    LET t == TransferIn(S, user, assets.val)
    IN IF t.err # "Ok" THEN t ELSE
    LET m == MintTo(t.st, user, shares)
    IN IF m.err # "Ok" THEN m ELSE
    LET total == checked_add(m.st.vault.total_assets, assets.val)
    IN IF ~IsOk(total) THEN Fail(total.err, m.st)
    ELSE Done(Emit([m.st EXCEPT !.vault.total_assets = total.val],
                   DepositEvent(user, assets.val, shares)),
              assets.val, shares)

\* mint(shares, max_assets_in)
svs1_mint(S, user, shares, max_assets_in) ==
    IF ~NotPaused(S) THEN Fail("VaultPaused", S)
    ELSE IF ~(shares > 0) THEN Fail("ZeroAmount", S)
    ELSE
    LET assets == convert_to_assets(shares, S.vault.total_assets, S.supply,
                                    S.vault.decimals_offset, "Ceiling")
    IN IF ~IsOk(assets) THEN Fail(assets.err, S)
    ELSE IF ~(assets.val <= max_assets_in) THEN Fail("SlippageExceeded", S)
    ELSE
    LET t == TransferIn(S, user, assets.val)
    IN IF t.err # "Ok" THEN t ELSE
    LET m == MintTo(t.st, user, shares)
    IN IF m.err # "Ok" THEN m ELSE
    LET total == checked_add(m.st.vault.total_assets, assets.val)
    IN IF ~IsOk(total) THEN Fail(total.err, m.st)
    ELSE Done(Emit([m.st EXCEPT !.vault.total_assets = total.val],
                   DepositEvent(user, assets.val, shares)),
              assets.val, shares)

\* withdraw(assets, max_shares_in)
svs1_withdraw(S, user, assets, max_shares_in) ==
    IF ~NotPaused(S) THEN Fail("VaultPaused", S)
    ELSE IF ~(assets > 0) THEN Fail("ZeroAmount", S)
    ELSE
    LET shares == convert_to_shares(assets, S.vault.total_assets, S.supply,
                                    S.vault.decimals_offset, "Ceiling")
    IN IF ~IsOk(shares) THEN Fail(shares.err, S)
    ELSE IF ~(shares.val <= max_shares_in) THEN Fail("SlippageExceeded", S)
    ELSE
    LET b == Burn(S, user, shares.val)
    IN IF b.err # "Ok" THEN b ELSE
    LET t == TransferOut(b.st, user, assets)
    IN IF t.err # "Ok" THEN t ELSE
    LET total == checked_sub(t.st.vault.total_assets, assets)
    IN IF ~IsOk(total) THEN Fail(total.err, t.st)
    ELSE Done(Emit([t.st EXCEPT !.vault.total_assets = total.val],
                   WithdrawEvent(user, assets, shares.val)),
              assets, shares.val)

\* mutant: the payout of a redeem quoted against the supply left after the burn
svs1_redeem_quote_after_burn(S, user, shares, min_assets_out) ==
    IF ~NotPaused(S) THEN Fail("VaultPaused", S)
    ELSE IF ~(shares > 0) THEN Fail("ZeroAmount", S)
    ELSE IF ~(S.shareAcct[user].amount >= shares) THEN Fail("InsufficientShares", S)
    ELSE
    LET assets == convert_to_assets(shares, S.vault.total_assets, S.supply - shares,
                                    S.vault.decimals_offset, "Floor")
    IN IF ~IsOk(assets) THEN Fail(assets.err, S)
    ELSE IF ~(assets.val >= min_assets_out) THEN Fail("SlippageExceeded", S)
    ELSE IF ~(assets.val <= S.vault.total_assets) THEN Fail("InsufficientAssets", S)
    ELSE
    LET b == Burn(S, user, shares)
    IN IF b.err # "Ok" THEN b ELSE
    LET t == TransferOut(b.st, user, assets.val)
    IN IF t.err # "Ok" THEN t ELSE
    LET total == checked_sub(t.st.vault.total_assets, assets.val)
    IN IF ~IsOk(total) THEN Fail(total.err, t.st)
    ELSE Done(Emit([t.st EXCEPT !.vault.total_assets = total.val],
                   WithdrawEvent(user, assets.val, shares)),
              assets.val, shares)

\* redeem(shares, min_assets_out)
svs1_redeem(S, user, shares, min_assets_out) ==
    IF ~NotPaused(S) THEN Fail("VaultPaused", S)
    ELSE IF ~(shares > 0) THEN Fail("ZeroAmount", S)
    ELSE IF ~(S.shareAcct[user].amount >= shares) THEN Fail("InsufficientShares", S)
    ELSE
    LET assets == convert_to_assets(shares, S.vault.total_assets, S.supply,
                                    S.vault.decimals_offset, "Floor")
    IN IF ~IsOk(assets) THEN Fail(assets.err, S)
    ELSE IF ~(assets.val >= min_assets_out) THEN Fail("SlippageExceeded", S)
    ELSE IF ~(assets.val <= S.vault.total_assets) THEN Fail("InsufficientAssets", S)
    ELSE
    LET b == Burn(S, user, shares)
    IN IF b.err # "Ok" THEN b ELSE
    LET t == TransferOut(b.st, user, assets.val)
    IN IF t.err # "Ok" THEN t ELSE
    LET total == checked_sub(t.st.vault.total_assets, assets.val)
    IN IF ~IsOk(total) THEN Fail(total.err, t.st)
    ELSE Done(Emit([t.st EXCEPT !.vault.total_assets = total.val],
                   WithdrawEvent(user, assets.val, shares)),
              assets.val, shares)

\* ------------------------------------------------------------------------
\* svs-2 instructions (confidential shares)
\* ------------------------------------------------------------------------
\* mutant: an offset of zero passed on to the token program
configure_account_offset_unchecked(S, user, decryptable_zero_balance, has_context, proof_instruction_offset, proof_verified) ==
    LET a == Reallocate(S, user)
    IN IF a.err # "Ok" THEN a
       ELSE ConfigureTokenAccount(a.st, user, decryptable_zero_balance, proof_verified)

\* configure_account(decryptable_zero_balance, proof_instruction_offset), with
\* the optional proof_context_account; proof_verified tells whether the proof
\* the instruction points at is a verified PubkeyValidityProof
configure_account(S, user, decryptable_zero_balance, has_context, proof_instruction_offset, proof_verified) ==
    LET a == Reallocate(S, user)
    IN IF a.err # "Ok" THEN a
       ELSE IF ~has_context /\ proof_instruction_offset = 0 THEN Fail("InvalidProof", a.st)
       ELSE ConfigureTokenAccount(a.st, user, decryptable_zero_balance, proof_verified)

\* mutant: the check against MIN_DEPOSIT_AMOUNT left out
svs2_deposit_no_minimum(S, user, assets, min_shares_out) ==
    IF ~NotPaused(S) THEN Fail("VaultPaused", S)
    ELSE IF ~(assets > 0) THEN Fail("ZeroAmount", S)
    ELSE
    LET shares == convert_to_shares(assets, S.vault.total_assets, S.supply,
                                    S.vault.decimals_offset, "Floor")
    IN IF ~IsOk(shares) THEN Fail(shares.err, S)
    ELSE IF ~(shares.val >= min_shares_out) THEN Fail("SlippageExceeded", S)
    ELSE
    LET t == TransferIn(S, user, assets)
    IN IF t.err # "Ok" THEN t ELSE
    LET m == MintTo(t.st, user, shares.val)
    IN IF m.err # "Ok" THEN m ELSE
    LET c == ConfidentialDeposit(m.st, user, shares.val)
    IN IF c.err # "Ok" THEN c ELSE
    LET total == checked_add(c.st.vault.total_assets, assets)
    IN IF ~IsOk(total) THEN Fail(total.err, c.st)
    ELSE Done(Emit([c.st EXCEPT !.vault.total_assets = total.val],
                   DepositEvent(user, assets, shares.val)),
              assets, shares.val)

\* deposit(assets, min_shares_out)
svs2_deposit(S, user, assets, min_shares_out) ==
    IF ~NotPaused(S) THEN Fail("VaultPaused", S)
    ELSE IF ~(assets > 0) THEN Fail("ZeroAmount", S)
    ELSE IF ~(assets >= MIN_DEPOSIT_AMOUNT) THEN Fail("DepositTooSmall", S)
    ELSE
    LET shares == convert_to_shares(assets, S.vault.total_assets, S.supply,
                                    S.vault.decimals_offset, "Floor")
    IN IF ~IsOk(shares) THEN Fail(shares.err, S)
    ELSE IF ~(shares.val >= min_shares_out) THEN Fail("SlippageExceeded", S)
    ELSE
    LET t == TransferIn(S, user, assets)
    IN IF t.err # "Ok" THEN t ELSE
    LET m == MintTo(t.st, user, shares.val)
    IN IF m.err # "Ok" THEN m ELSE
    LET c == ConfidentialDeposit(m.st, user, shares.val)
    IN IF c.err # "Ok" THEN c ELSE
    LET total == checked_add(c.st.vault.total_assets, assets)
    IN IF ~IsOk(total) THEN Fail(total.err, c.st)
    ELSE Done(Emit([c.st EXCEPT !.vault.total_assets = total.val],
                   DepositEvent(user, assets, shares.val)),
              assets, shares.val)

\* mutant: the call to the token program left out
apply_pending_without_effect(S, user, new_decryptable_available_balance, expected_pending_balance_credit_counter) ==
    Done(S, 0, 0)

\* apply_pending(new_decryptable_available_balance,
\*               expected_pending_balance_credit_counter)
apply_pending(S, user, new_decryptable_available_balance, expected_pending_balance_credit_counter) ==
    ApplyPendingBalance(S, user, expected_pending_balance_credit_counter,
                        new_decryptable_available_balance)

\* mutant: the slippage check of a redeem left out
svs2_redeem_unbounded(S, user, shares, min_assets_out, new_decryptable_available_balance, equality_verified, range_verified) ==
    IF ~NotPaused(S) THEN Fail("VaultPaused", S)
    ELSE IF ~(shares > 0) THEN Fail("ZeroAmount", S)
    ELSE
    LET assets == convert_to_assets(shares, S.vault.total_assets, S.supply,
                                    S.vault.decimals_offset, "Floor")
    IN IF ~IsOk(assets) THEN Fail(assets.err, S)
    ELSE IF ~(assets.val <= S.vault.total_assets) THEN Fail("InsufficientAssets", S)
    ELSE
    LET w == ConfidentialWithdraw(S, user, shares, new_decryptable_available_balance,
                                  equality_verified, range_verified)
    IN IF w.err # "Ok" THEN w ELSE
    LET b == Burn(w.st, user, shares)
    IN IF b.err # "Ok" THEN b ELSE
    LET t == TransferOut(b.st, user, assets.val)
    IN IF t.err # "Ok" THEN t ELSE
    LET total == checked_sub(t.st.vault.total_assets, assets.val)
    IN IF ~IsOk(total) THEN Fail(total.err, t.st)
    ELSE Done(Emit([t.st EXCEPT !.vault.total_assets = total.val],
                   WithdrawEvent(user, assets.val, shares)),
              assets.val, shares)

\* redeem(shares, min_assets_out, new_decryptable_available_balance), with the
\* equality_proof_context and range_proof_context accounts
svs2_redeem(S, user, shares, min_assets_out, new_decryptable_available_balance, equality_verified, range_verified) ==
    IF ~NotPaused(S) THEN Fail("VaultPaused", S)
    ELSE IF ~(shares > 0) THEN Fail("ZeroAmount", S)
    ELSE
    LET assets == convert_to_assets(shares, S.vault.total_assets, S.supply,
                                    S.vault.decimals_offset, "Floor")
    IN IF ~IsOk(assets) THEN Fail(assets.err, S)
    ELSE IF ~(assets.val >= min_assets_out) THEN Fail("SlippageExceeded", S)
    ELSE IF ~(assets.val <= S.vault.total_assets) THEN Fail("InsufficientAssets", S)
    ELSE
    LET w == ConfidentialWithdraw(S, user, shares, new_decryptable_available_balance,
                                  equality_verified, range_verified)
    IN IF w.err # "Ok" THEN w ELSE
    LET b == Burn(w.st, user, shares)
    IN IF b.err # "Ok" THEN b ELSE
    LET t == TransferOut(b.st, user, assets.val)
    IN IF t.err # "Ok" THEN t ELSE
    LET total == checked_sub(t.st.vault.total_assets, assets.val)
    IN IF ~IsOk(total) THEN Fail(total.err, t.st)
    ELSE Done(Emit([t.st EXCEPT !.vault.total_assets = total.val],
                   WithdrawEvent(user, assets.val, shares)),
              assets.val, shares)

\* mint(shares, max_assets_in)
svs2_mint(S, user, shares, max_assets_in) ==
    IF ~NotPaused(S) THEN Fail("VaultPaused", S)
    ELSE IF ~(shares > 0) THEN Fail("ZeroAmount", S)
    ELSE
    LET assets == convert_to_assets(shares, S.vault.total_assets, S.supply,
                                    S.vault.decimals_offset, "Ceiling")
    IN IF ~IsOk(assets) THEN Fail(assets.err, S)
    ELSE IF ~(assets.val <= max_assets_in) THEN Fail("SlippageExceeded", S)
    ELSE
    LET t == TransferIn(S, user, assets.val)
    IN IF t.err # "Ok" THEN t ELSE
    LET m == MintTo(t.st, user, shares)
    IN IF m.err # "Ok" THEN m ELSE
    LET c == ConfidentialDeposit(m.st, user, shares)
    IN IF c.err # "Ok" THEN c ELSE
    LET total == checked_add(c.st.vault.total_assets, assets.val)
    IN IF ~IsOk(total) THEN Fail(total.err, c.st)
    ELSE Done(Emit([c.st EXCEPT !.vault.total_assets = total.val],
                   DepositEvent(user, assets.val, shares)),
              assets.val, shares)

\* withdraw(assets, max_shares_in, new_decryptable_available_balance), with
\* the equality_proof_context and range_proof_context accounts
svs2_withdraw(S, user, assets, max_shares_in, new_decryptable_available_balance, equality_verified, range_verified) ==
    IF ~NotPaused(S) THEN Fail("VaultPaused", S)
    ELSE IF ~(assets > 0) THEN Fail("ZeroAmount", S)
    ELSE
    LET shares == convert_to_shares(assets, S.vault.total_assets, S.supply,
                                    S.vault.decimals_offset, "Ceiling")
    IN IF ~IsOk(shares) THEN Fail(shares.err, S)
    ELSE IF ~(shares.val <= max_shares_in) THEN Fail("SlippageExceeded", S)
    ELSE
    LET w == ConfidentialWithdraw(S, user, shares.val, new_decryptable_available_balance,
                                  equality_verified, range_verified)
    IN IF w.err # "Ok" THEN w ELSE
    LET b == Burn(w.st, user, shares.val)
    IN IF b.err # "Ok" THEN b ELSE
    LET t == TransferOut(b.st, user, assets)
    IN IF t.err # "Ok" THEN t ELSE
    LET total == checked_sub(t.st.vault.total_assets, assets)
    IN IF ~IsOk(total) THEN Fail(total.err, t.st)
    ELSE Done(Emit([t.st EXCEPT !.vault.total_assets = total.val],
                   WithdrawEvent(user, assets, shares.val)),
              assets, shares.val)

\* ------------------------------------------------------------------------
\* Admin instructions (admin.rs)
\* ------------------------------------------------------------------------
\* mutant: pause without the check on the current flag
pause_idempotent(S, signer) ==
    IF ~IsAuthority(S, signer) THEN Fail("Unauthorized", S)
    ELSE Done(Emit([S EXCEPT !.vault.paused = TRUE], VaultStatusChanged(TRUE)), 0, 0)

pause(S, signer) ==
    IF ~IsAuthority(S, signer) THEN Fail("Unauthorized", S)
    ELSE IF ~(~S.vault.paused) THEN Fail("VaultPaused", S)
    ELSE Done(Emit([S EXCEPT !.vault.paused = TRUE], VaultStatusChanged(TRUE)), 0, 0)

unpause(S, signer) ==
    IF ~IsAuthority(S, signer) THEN Fail("Unauthorized", S)
    ELSE IF ~S.vault.paused THEN Fail("VaultPaused", S)
    ELSE Done(Emit([S EXCEPT !.vault.paused = FALSE], VaultStatusChanged(FALSE)), 0, 0)

\* mutant: the new authority announced but not installed
transfer_authority_deferred(S, signer, new_authority) ==
    IF ~IsAuthority(S, signer) THEN Fail("Unauthorized", S)
    ELSE Done(Emit(S, AuthorityTransferred(S.vault.authority, new_authority)), 0, 0)

transfer_authority(S, signer, new_authority) ==
    IF ~IsAuthority(S, signer) THEN Fail("Unauthorized", S)
    ELSE Done(Emit([S EXCEPT !.vault.authority = new_authority],
                   AuthorityTransferred(S.vault.authority, new_authority)), 0, 0)

\* mutant: sync refused while the vault is paused
sync_when_unpaused(S, signer) ==
    IF ~IsAuthority(S, signer) THEN Fail("Unauthorized", S)
    ELSE IF ~NotPaused(S) THEN Fail("VaultPaused", S)
    ELSE Done(Emit([S EXCEPT !.vault.total_assets = S.custody],
                   VaultSynced(S.vault.total_assets, S.custody)), 0, 0)

sync(S, signer) ==
    IF ~IsAuthority(S, signer) THEN Fail("Unauthorized", S)
    ELSE Done(Emit([S EXCEPT !.vault.total_assets = S.custody],
                   VaultSynced(S.vault.total_assets, S.custody)), 0, 0)

\* ------------------------------------------------------------------------
\* Views (svs-2 view.rs); the value is what set_return_data hands back
\* ------------------------------------------------------------------------
max_deposit(S) == Ok(IF S.vault.paused THEN 0 ELSE U64_MAX)

max_mint(S) == Ok(IF S.vault.paused THEN 0 ELSE U64_MAX)

\* mutant: the early return on a paused vault left out
max_withdraw_ignoring_pause(S, owner) ==
    LET max_assets == convert_to_assets(S.shareAcct[owner].amount, S.vault.total_assets,
                                        S.supply, S.vault.decimals_offset, "Floor")
    IN IF ~IsOk(max_assets) THEN max_assets
       ELSE Ok(IF max_assets.val < S.vault.total_assets THEN max_assets.val
               ELSE S.vault.total_assets)

\* owner is the holder of owner_shares_account, whose amount field is read
max_withdraw(S, owner) ==
    IF S.vault.paused THEN Ok(0)
    ELSE
    LET max_assets == convert_to_assets(S.shareAcct[owner].amount, S.vault.total_assets,
                                        S.supply, S.vault.decimals_offset, "Floor")
    IN IF ~IsOk(max_assets) THEN max_assets
       ELSE Ok(IF max_assets.val < S.vault.total_assets THEN max_assets.val
               ELSE S.vault.total_assets)

max_redeem(S, owner) == Ok(IF S.vault.paused THEN 0 ELSE S.shareAcct[owner].amount)

\* mutant: the preview of a deposit rounded up
preview_deposit_rounding_up(S, assets) ==
    convert_to_shares(assets, S.vault.total_assets, S.supply, S.vault.decimals_offset,
                      "Ceiling")

\* shares that a deposit of the assets would mint
preview_deposit(S, assets) ==
    convert_to_shares(assets, S.vault.total_assets, S.supply, S.vault.decimals_offset,
                      "Floor")

\* assets that a mint of the shares would charge
preview_mint(S, shares) ==
    convert_to_assets(shares, S.vault.total_assets, S.supply, S.vault.decimals_offset,
                      "Ceiling")

\* shares that a withdrawal of the assets would burn
preview_withdraw(S, assets) ==
    convert_to_shares(assets, S.vault.total_assets, S.supply, S.vault.decimals_offset,
                      "Ceiling")

\* assets that a redeem of the shares would pay
preview_redeem(S, shares) ==
    convert_to_assets(shares, S.vault.total_assets, S.supply, S.vault.decimals_offset,
                      "Floor")

\* ------------------------------------------------------------------------
\* initialize (initialize.rs)
\* ------------------------------------------------------------------------
\* mutant: the offset taken to be the decimals of the asset
initialize_offset_is_decimals(S, authority, asset_decimals, vault_id, auditor_elgamal_pubkey) ==
    IF ~(asset_decimals <= MAX_DECIMALS) THEN Fail("InvalidAssetDecimals", S)
    ELSE Done(Emit([S EXCEPT !.vault = [initialized |-> TRUE,
                                        authority |-> authority,
                                        asset_mint |-> "asset_mint",
                                        shares_mint |-> "shares_mint",
                                        asset_vault |-> "asset_vault",
                                        total_assets |-> 0,
                                        decimals_offset |-> asset_decimals,
                                        bump |-> "vault_bump",
                                        paused |-> FALSE,
                                        vault_id |-> vault_id,
                                        auditor_elgamal_pubkey |-> auditor_elgamal_pubkey]],
                   VaultInitialized(authority)), 0, 0)

\* initialize(vault_id, name, symbol, uri); the asset mint, the shares mint
\* and the custody account are the accounts of the instruction, the bump is
\* the one of the vault address.  The confidential vault also stores the
\* optional auditor key it is created with.
initialize(S, authority, asset_decimals, vault_id, auditor_elgamal_pubkey) ==
    IF ~(asset_decimals <= MAX_DECIMALS) THEN Fail("InvalidAssetDecimals", S)
    ELSE Done(Emit([S EXCEPT !.vault = [initialized |-> TRUE,
                                        authority |-> authority,
                                        asset_mint |-> "asset_mint",
                                        shares_mint |-> "shares_mint",
                                        asset_vault |-> "asset_vault",
                                        total_assets |-> 0,
                                        decimals_offset |-> MAX_DECIMALS - asset_decimals,
                                        bump |-> "vault_bump",
                                        paused |-> FALSE,
                                        vault_id |-> vault_id,
                                        auditor_elgamal_pubkey |-> auditor_elgamal_pubkey]],
                   VaultInitialized(authority)), 0, 0)

\* ------------------------------------------------------------------------
\* Instruction dispatch: an instruction that returns Err leaves no trace,
\* the account changes made before the error are discarded
\* ------------------------------------------------------------------------
\* mutant: the accounts are written back whatever the handler returned
Committed_always(S, r) == r.st

Committed(S, r) == IF r.err = "Ok" THEN r.st ELSE S

Call(op, caller, a, b, r) ==
    [op |-> op, caller |-> caller, a |-> a, b |-> b, key |-> "none",
     err |-> r.err, assets |-> r.assets, shares |-> r.shares]

SetLedger(S) ==
    /\ vault' = S.vault
    /\ supply' = S.supply
    /\ assetBal' = S.assetBal
    /\ custody' = S.custody
    /\ shareAcct' = S.shareAcct
    /\ events' = S.events

Process(op, caller, a, b, r) ==
    /\ SetLedger(Committed(Cur, r))
    /\ last' = Call(op, caller, a, b, r)
    /\ UNCHANGED <<program, calc, cycle, snapshot, service>>

\* the same, with a note of the accounts passed beside the arguments
ProcessWith(op, caller, a, b, key, r) ==
    /\ SetLedger(Committed(Cur, r))
    /\ last' = [Call(op, caller, a, b, r) EXCEPT !.key = key]
    /\ UNCHANGED <<program, calc, cycle, snapshot, service>>

\* which of the two proof context accounts hold a verified proof
Proofs(equality_verified, range_verified) ==
    IF equality_verified /\ range_verified THEN "both"
    ELSE IF equality_verified THEN "equality"
    ELSE IF range_verified THEN "range" ELSE "neither"

\* ------------------------------------------------------------------------
\* Inputs
\* ------------------------------------------------------------------------
Programs == {"svs1", "svs2"}

Creator == "alice"

VaultId == 1

\* the auditor key a vault of program p is created with
Auditor(p) == IF p = "svs2" THEN "auditor_key" ELSE "none"

AssetDecimals == {3, 6, 9, 10}

DepositAmounts == {0, 999, 1000}

MintAmounts == {0, 1000, 1000000}

WithdrawAmounts == {0, 1, 1000}

RedeemAmounts(held) == {0, 1000, held, held + 1}

MinBounds == {0, 1000}

MaxBounds == {1000, U64_MAX}

Donations == {500}

ProofOffsets == {-1, 0}

\* ------------------------------------------------------------------------
\* Initial states: the vault as created by initialize
\* ------------------------------------------------------------------------
Init ==
    \E p \in Programs, asset_decimals \in AssetDecimals :
        LET r == initialize(Empty, Creator, asset_decimals, VaultId, Auditor(p))
            S == Committed(Empty, r)
        IN /\ program = IF r.err = "Ok" THEN p ELSE "none"
           /\ vault = S.vault
           /\ supply = S.supply
           /\ assetBal = S.assetBal
           /\ custody = S.custody
           /\ shareAcct = S.shareAcct
           /\ events = S.events
           /\ last = Call("initialize", Creator, asset_decimals, 0, r)
           /\ calc = NoCalc
           /\ cycle = NoCycle
           /\ snapshot = NoSnapshot
           /\ service = NoService

\* ------------------------------------------------------------------------
\* Actions
\* ------------------------------------------------------------------------
\* an instruction is processed once the result of the previous one has been
\* returned; the event log is bounded
Ready == vault.initialized /\ last.op = "none" /\ Len(events) < MaxEvents

Live(p) == Ready /\ program = p

Deposit1 ==
    /\ Live("svs1")
    /\ \E user \in Users, assets \in DepositAmounts, min_shares_out \in MinBounds :
          Process("deposit", user, assets, min_shares_out,
                  svs1_deposit(Cur, user, assets, min_shares_out))

Mint1 ==
    /\ Live("svs1")
    /\ \E user \in Users, shares \in MintAmounts, max_assets_in \in MaxBounds :
          Process("mint", user, shares, max_assets_in,
                  svs1_mint(Cur, user, shares, max_assets_in))

Withdraw1 ==
    /\ Live("svs1")
    /\ \E user \in Users, assets \in WithdrawAmounts, max_shares_in \in MaxBounds :
          Process("withdraw", user, assets, max_shares_in,
                  svs1_withdraw(Cur, user, assets, max_shares_in))

Redeem1 ==
    /\ Live("svs1")
    /\ \E user \in Users, min_assets_out \in MinBounds :
          \E shares \in RedeemAmounts(shareAcct[user].amount) :
              Process("redeem", user, shares, min_assets_out,
                      svs1_redeem(Cur, user, shares, min_assets_out))

ConfigureAccount ==
    /\ Live("svs2")
    /\ \E user \in Users, has_context \in BOOLEAN, offset \in ProofOffsets,
          proof_verified \in BOOLEAN :
          ProcessWith("configure_account", user, offset, IF has_context THEN 1 ELSE 0,
                      IF proof_verified THEN "verified" ELSE "unverified",
                      configure_account(Cur, user, 0, has_context, offset, proof_verified))

Deposit2 ==
    /\ Live("svs2")
    /\ \E user \in Users, assets \in DepositAmounts, min_shares_out \in MinBounds :
          Process("deposit", user, assets, min_shares_out,
                  svs2_deposit(Cur, user, assets, min_shares_out))

ApplyPending ==
    /\ Live("svs2")
    /\ \E user \in Users :
          \E expected \in {shareAcct[user].pending_counter, shareAcct[user].pending_counter + 1},
             new_decryptable \in {shareAcct[user].available + shareAcct[user].pending} :
              Process("apply_pending", user, new_decryptable, expected,
                      apply_pending(Cur, user, new_decryptable, expected))

Redeem2 ==
    /\ Live("svs2")
    /\ \E user \in Users, min_assets_out \in MinBounds,
          equality_verified \in BOOLEAN, range_verified \in BOOLEAN :
          \E shares \in RedeemAmounts(shareAcct[user].available) :
              ProcessWith("redeem", user, shares, min_assets_out,
                          Proofs(equality_verified, range_verified),
                          svs2_redeem(Cur, user, shares, min_assets_out,
                                      IF shareAcct[user].available >= shares
                                      THEN shareAcct[user].available - shares ELSE 0,
                                      equality_verified, range_verified))

Pause ==
    /\ Ready
    /\ \E signer \in Users : Process("pause", signer, 0, 0, pause(Cur, signer))

Unpause ==
    /\ Ready
    /\ \E signer \in Users : Process("unpause", signer, 0, 0, unpause(Cur, signer))

TransferAuthority ==
    /\ Ready
    /\ \E signer \in Users, new_authority \in Users :
          LET r == transfer_authority(Cur, signer, new_authority)
          IN /\ SetLedger(Committed(Cur, r))
             /\ last' = [Call("transfer_authority", signer, 0, 0, r)
                            EXCEPT !.key = new_authority]
             /\ UNCHANGED <<program, calc, cycle, snapshot, service>>

Sync ==
    /\ Ready
    /\ \E signer \in Users : Process("sync", signer, 0, 0, sync(Cur, signer))

\* a transfer of assets into the custody account that bypasses the vault
Donate ==
    /\ Ready
    /\ \E amount \in Donations :
          Process("donate", Donor, amount, 0, TransferIn(Cur, Donor, amount))

\* the result of the instruction is returned to its caller
Return ==
    /\ last.op # "none"
    /\ last' = NoCall
    /\ UNCHANGED <<program, vault, supply, assetBal, custody, shareAcct, events, calc,
                   cycle, snapshot, service>>

Next ==
    \/ Deposit1
    \/ Mint1
    \/ Withdraw1
    \/ Redeem1
    \/ ConfigureAccount
    \/ Deposit2
    \/ ApplyPending
    \/ Redeem2
    \/ Pause
    \/ Unpause
    \/ TransferAuthority
    \/ Sync
    \/ Donate
    \/ Return

Spec == Init /\ [][Next]_vars

\* ------------------------------------------------------------------------
\* The confidential vault on its own, with every entry and exit instruction
\* and holders who read their share account off-chain before they apply
\* ------------------------------------------------------------------------
\* bound on the length of the event log of the confidential vault
MaxConfidentialEvents == 3

ConfidentialDecimals == {6, 9}

\* the asset of the vault whose holders are followed to the end
FairDecimals == {9}

Created(asset_decimals) ==
    LET r == initialize(Empty, Creator, asset_decimals, VaultId, Auditor("svs2"))
        S == Committed(Empty, r)
    IN /\ program = "svs2"
       /\ vault = S.vault
       /\ supply = S.supply
       /\ assetBal = S.assetBal
       /\ custody = S.custody
       /\ shareAcct = S.shareAcct
       /\ events = S.events
       /\ last = Call("initialize", Creator, asset_decimals, 0, r)
       /\ calc = NoCalc
       /\ cycle = NoCycle
       /\ snapshot = NoSnapshot
       /\ service = NoService

InitConfidential == \E asset_decimals \in ConfidentialDecimals : Created(asset_decimals)

InitFair == \E asset_decimals \in FairDecimals : Created(asset_decimals)

Logging == Len(events) < MaxConfidentialEvents

\* between two instructions
Idle == vault.initialized /\ last.op = "none" /\ program = "svs2"

Mint2 ==
    /\ Live("svs2")
    /\ \E user \in Users, shares \in MintAmounts, max_assets_in \in MaxBounds :
          Process("mint", user, shares, max_assets_in,
                  svs2_mint(Cur, user, shares, max_assets_in))

\* the balance left after the shares that an exact withdrawal burns
BalanceAfter(user, assets) ==
    LET shares == convert_to_shares(assets, vault.total_assets, supply,
                                    vault.decimals_offset, "Ceiling")
    IN IF IsOk(shares) /\ shareAcct[user].available >= shares.val
       THEN shareAcct[user].available - shares.val ELSE 0

Withdraw2 ==
    /\ Live("svs2")
    /\ \E user \in Users, assets \in WithdrawAmounts, max_shares_in \in MaxBounds,
          equality_verified \in BOOLEAN, range_verified \in BOOLEAN :
          ProcessWith("withdraw", user, assets, max_shares_in,
                      Proofs(equality_verified, range_verified),
                      svs2_withdraw(Cur, user, assets, max_shares_in,
                                    BalanceAfter(user, assets),
                                    equality_verified, range_verified))

\* the holder reads the pending credit counter and the two balances, and
\* computes the total to store with the next apply_pending
ReadPending(user) ==
    /\ Idle
    /\ snapshot.holder = "none"
    /\ shareAcct[user].pending > 0
    /\ snapshot' = [holder |-> user, counter |-> shareAcct[user].pending_counter,
                    total |-> shareAcct[user].available + shareAcct[user].pending]
    /\ UNCHANGED <<program, vault, supply, assetBal, custody, shareAcct, events, last,
                   calc, cycle, service>>

\* apply_pending with what the holder read, whatever happened since
ApplyFromSnapshot ==
    /\ Idle
    /\ snapshot.holder # "none"
    /\ LET r == apply_pending(Cur, snapshot.holder, snapshot.total, snapshot.counter)
       IN /\ SetLedger(Committed(Cur, r))
          /\ last' = Call("apply_pending", snapshot.holder, snapshot.total,
                          snapshot.counter, r)
    /\ snapshot' = NoSnapshot
    /\ UNCHANGED <<program, calc, cycle, service>>

\* apply_pending with the counter and the total of the account as it is
HolderApply(user) ==
    /\ Idle
    /\ Process("apply_pending", user,
               shareAcct[user].available + shareAcct[user].pending,
               shareAcct[user].pending_counter,
               apply_pending(Cur, user,
                             shareAcct[user].available + shareAcct[user].pending,
                             shareAcct[user].pending_counter))

NextConfidential ==
    \/ Logging /\ ConfigureAccount
    \/ Logging /\ Deposit2
    \/ Logging /\ Mint2
    \/ Logging /\ Withdraw2
    \/ Logging /\ Redeem2
    \/ Logging /\ Pause
    \/ Logging /\ Unpause
    \/ Logging /\ TransferAuthority
    \/ Logging /\ Sync
    \/ Logging /\ Donate
    \/ \E user \in Users : ReadPending(user)
    \/ ApplyFromSnapshot
    \/ \E user \in Users : HolderApply(user)
    \/ Return

SpecConfidential == InitConfidential /\ [][NextConfidential]_vars

\* a holder who keeps retrying apply_pending gets it processed, and every
\* instruction returns
SpecConfidentialFair ==
    /\ InitFair
    /\ [][NextConfidential]_vars
    /\ WF_vars(Return)
    /\ \A user \in Users : SF_vars(HolderApply(user))

\* ------------------------------------------------------------------------
\* Longer runs of the four entry and exit instructions of either vault by two
\* holders, with donations into the custody account and sync
\* ------------------------------------------------------------------------
\* bound on the length of the event log of a run
MaxFlows == 4

FlowDecimals == {6, 8, 9}

\* what the holders and the donor own before the run
FlowWallets ==
    [u \in Users \cup {Donor} |->
        IF u = "alice" THEN 4000 ELSE IF u = "bob" THEN 2500 ELSE 500]

FlowDeposits == {1000, 1001}

FlowMints == {1, 1500}

FlowWithdraws == {1, 700}

FlowRedeems(held) == {1, held \div 3, held} \ {0}

\* the share accounts of a confidential vault are configured before the run
Configured(p, S) ==
    IF p = "svs1" THEN S
    ELSE LET A == Committed(S, configure_account(S, "alice", 0, TRUE, 0, TRUE))
         IN Committed(A, configure_account(A, "bob", 0, TRUE, 0, TRUE))

InitFlows ==
    \E p \in Programs, asset_decimals \in FlowDecimals :
        \E W \in {[Empty EXCEPT !.assetBal = FlowWallets]} :
            \E V \in {Committed(W, initialize(W, Creator, asset_decimals, VaultId, Auditor(p)))} :
                \E S \in {Configured(p, V)} :
                    /\ program = p
                    /\ vault = S.vault
                    /\ supply = S.supply
                    /\ assetBal = S.assetBal
                    /\ custody = S.custody
                    /\ shareAcct = S.shareAcct
                    /\ events = S.events
                    /\ last = NoCall
                    /\ calc = NoCalc
                    /\ cycle = NoCycle
                    /\ snapshot = NoSnapshot
                    /\ service = NoService

Flowing == vault.initialized /\ last.op = "none" /\ Len(events) < MaxFlows

\* the shares a holder can redeem: on the confidential vault, the available
\* balance
Redeemable(user) ==
    IF program = "svs1" THEN shareAcct[user].amount ELSE shareAcct[user].available

\* the available balance left after a debit, as the holder encrypts it
Remaining(user, shares) ==
    IF shareAcct[user].available >= shares THEN shareAcct[user].available - shares ELSE 0

FlowDeposit ==
    /\ Flowing
    /\ \E user \in Users, assets \in FlowDeposits :
          Process("deposit", user, assets, 0,
                  IF program = "svs1" THEN svs1_deposit(Cur, user, assets, 0)
                  ELSE svs2_deposit(Cur, user, assets, 0))

FlowMint ==
    /\ Flowing
    /\ \E user \in Users, shares \in FlowMints :
          Process("mint", user, shares, U64_MAX,
                  IF program = "svs1" THEN svs1_mint(Cur, user, shares, U64_MAX)
                  ELSE svs2_mint(Cur, user, shares, U64_MAX))

FlowWithdraw ==
    /\ Flowing
    /\ \E user \in Users, assets \in FlowWithdraws :
          Process("withdraw", user, assets, U64_MAX,
                  IF program = "svs1" THEN svs1_withdraw(Cur, user, assets, U64_MAX)
                  ELSE svs2_withdraw(Cur, user, assets, U64_MAX,
                                     BalanceAfter(user, assets), TRUE, TRUE))

FlowRedeem ==
    /\ Flowing
    /\ \E user \in Users :
          \E shares \in FlowRedeems(Redeemable(user)) :
              Process("redeem", user, shares, 0,
                      IF program = "svs1" THEN svs1_redeem(Cur, user, shares, 0)
                      ELSE svs2_redeem(Cur, user, shares, 0, Remaining(user, shares),
                                       TRUE, TRUE))

\* a holder of confidential shares applies what is pending
FlowApply ==
    /\ Flowing
    /\ program = "svs2"
    /\ \E user \in Users :
          /\ shareAcct[user].pending > 0
          /\ Process("apply_pending", user,
                     shareAcct[user].available + shareAcct[user].pending,
                     shareAcct[user].pending_counter,
                     apply_pending(Cur, user,
                                   shareAcct[user].available + shareAcct[user].pending,
                                   shareAcct[user].pending_counter))

FlowDonate ==
    /\ Flowing
    /\ \E amount \in Donations :
          Process("donate", Donor, amount, 0, TransferIn(Cur, Donor, amount))

FlowSync ==
    /\ Flowing
    /\ Process("sync", vault.authority, 0, 0, sync(Cur, vault.authority))

NextFlows ==
    \/ FlowDeposit
    \/ FlowMint
    \/ FlowWithdraw
    \/ FlowRedeem
    \/ FlowApply
    \/ FlowDonate
    \/ FlowSync
    \/ Return

SpecFlows == InitFlows /\ [][NextFlows]_vars

\* ------------------------------------------------------------------------
\* The preview views, each followed or not by the instruction it previews,
\* on either vault, with donations and sync between them
\* ------------------------------------------------------------------------
\* bound on the length of the event log of a run with previews
MaxPreviews == 4

PreviewAssets == {0, 1, 700, 1001}

PreviewShares(total) == {1, 1500, total \div 3, total} \ {0}

Previewing == vault.initialized /\ last.op = "none" /\ Len(events) < MaxPreviews

\* a preview is simulated: the ledger is read, the argument and the returned
\* value are recorded
Previewed(op, x, assets, shares, r) ==
    /\ last' = [NoCall EXCEPT !.op = op, !.a = x, !.err = r.err,
                              !.assets = assets, !.shares = shares]
    /\ UNCHANGED <<program, vault, supply, assetBal, custody, shareAcct, events, calc,
                   cycle, snapshot, service>>

PreviewDeposit ==
    /\ Previewing
    /\ \E assets \in PreviewAssets :
          \E r \in {preview_deposit(Cur, assets)} :
              Previewed("preview_deposit", assets, 0, r.val, r)

PreviewMint ==
    /\ Previewing
    /\ \E shares \in PreviewShares(supply) :
          \E r \in {preview_mint(Cur, shares)} :
              Previewed("preview_mint", shares, r.val, 0, r)

PreviewWithdraw ==
    /\ Previewing
    /\ \E assets \in PreviewAssets :
          \E r \in {preview_withdraw(Cur, assets)} :
              Previewed("preview_withdraw", assets, 0, r.val, r)

PreviewRedeem ==
    /\ Previewing
    /\ \E shares \in PreviewShares(supply) :
          \E r \in {preview_redeem(Cur, shares)} :
              Previewed("preview_redeem", shares, r.val, 0, r)

\* the instruction sent right after its preview, with the previewed amount
\* and the bound that accepts every rate
DepositPreviewed ==
    /\ last.op = "preview_deposit"
    /\ \E user \in Users :
          Process("deposit", user, last.a, 0,
                  IF program = "svs1" THEN svs1_deposit(Cur, user, last.a, 0)
                  ELSE svs2_deposit(Cur, user, last.a, 0))

MintPreviewed ==
    /\ last.op = "preview_mint"
    /\ \E user \in Users :
          Process("mint", user, last.a, U64_MAX,
                  IF program = "svs1" THEN svs1_mint(Cur, user, last.a, U64_MAX)
                  ELSE svs2_mint(Cur, user, last.a, U64_MAX))

WithdrawPreviewed ==
    /\ last.op = "preview_withdraw"
    /\ \E user \in Users :
          Process("withdraw", user, last.a, U64_MAX,
                  IF program = "svs1" THEN svs1_withdraw(Cur, user, last.a, U64_MAX)
                  ELSE svs2_withdraw(Cur, user, last.a, U64_MAX,
                                     BalanceAfter(user, last.a), TRUE, TRUE))

RedeemPreviewed ==
    /\ last.op = "preview_redeem"
    /\ \E user \in Users :
          Process("redeem", user, last.a, 0,
                  IF program = "svs1" THEN svs1_redeem(Cur, user, last.a, 0)
                  ELSE svs2_redeem(Cur, user, last.a, 0, Remaining(user, last.a),
                                   TRUE, TRUE))

NextPreviews ==
    \/ PreviewDeposit
    \/ PreviewMint
    \/ PreviewWithdraw
    \/ PreviewRedeem
    \/ DepositPreviewed
    \/ MintPreviewed
    \/ WithdrawPreviewed
    \/ RedeemPreviewed
    \/ Previewing /\ FlowApply
    \/ Previewing /\ FlowDonate
    \/ Previewing /\ FlowSync
    \/ Return

SpecPreviews == InitFlows /\ [][NextPreviews]_vars

\* ------------------------------------------------------------------------
\* Entry/exit cycles of one caller on the plain vault
\* ------------------------------------------------------------------------
MaxCycles == 2

CycleDecimals == {3, 6, 9}

CycleDeposits == {1000, 1500}

CycleMints == {1000, 1000000}

Preludes == 0..4

\* the ledger after the activity that precedes the cycles: nothing, a deposit
\* by bob, a synced donation, or both in either order
Prepared(S, k) ==
    LET deposited(T) == Committed(T, svs1_deposit(T, "bob", 1000, 0))
        donated(T) == Committed(T, TransferIn(T, Donor, 500))
        synced(T) == Committed(T, sync(T, T.vault.authority))
    IN CASE k = 0 -> S
         [] k = 1 -> deposited(S)
         [] k = 2 -> synced(donated(S))
         [] k = 3 -> synced(donated(deposited(S)))
         [] OTHER -> deposited(synced(donated(S)))

InitCycles ==
    \E asset_decimals \in CycleDecimals, k \in Preludes, caller \in Users :
        LET S == Prepared(Committed(Empty, initialize(Empty, Creator, asset_decimals, VaultId, Auditor("svs1"))), k)
        IN /\ program = "svs1"
           /\ vault = S.vault
           /\ supply = S.supply
           /\ assetBal = S.assetBal
           /\ custody = S.custody
           /\ shareAcct = S.shareAcct
           /\ events = S.events
           /\ last = NoCall
           /\ calc = NoCalc
           /\ snapshot = NoSnapshot
           /\ service = NoService
           /\ cycle = [NoCycle EXCEPT !.caller = caller,
                                      !.start_assets = S.assetBal[caller],
                                      !.start_total = S.vault.total_assets]

\* the caller enters: on success the cycle remembers what the entry gave
\* (shares of a deposit) or cost (assets of a mint)
Enter(op, a, b, r, phase) ==
    LET S == Committed(Cur, r)
    IN /\ cycle.phase = "idle"
       /\ cycle.attempts < MaxCycles
       /\ SetLedger(S)
       /\ last' = Call(op, cycle.caller, a, b, r)
       /\ cycle' = IF r.err = "Ok"
                   THEN [cycle EXCEPT
                           !.phase = phase,
                           !.amount = IF phase = "deposited"
                                      THEN S.shareAcct[cycle.caller].amount
                                             - shareAcct[cycle.caller].amount
                                      ELSE assetBal[cycle.caller]
                                             - S.assetBal[cycle.caller]]
                   ELSE [cycle EXCEPT !.attempts = @ + 1]
       /\ UNCHANGED <<program, calc, snapshot, service>>

\* the caller exits with exactly what the entry gave or cost
Exit(op, b, r, phase) ==
    /\ cycle.phase = phase
    /\ SetLedger(Committed(Cur, r))
    /\ last' = Call(op, cycle.caller, cycle.amount, b, r)
    /\ cycle' = [cycle EXCEPT !.phase = "idle", !.amount = 0,
                              !.attempts = @ + 1,
                              !.completed = IF r.err = "Ok" THEN @ + 1 ELSE @]
    /\ UNCHANGED <<program, calc, snapshot, service>>

CycleDeposit ==
    \E assets \in CycleDeposits :
        Enter("deposit", assets, 0, svs1_deposit(Cur, cycle.caller, assets, 0),
              "deposited")

CycleRedeem ==
    Exit("redeem", 0, svs1_redeem(Cur, cycle.caller, cycle.amount, 0), "deposited")

CycleMint ==
    \E shares \in CycleMints :
        Enter("mint", shares, U64_MAX, svs1_mint(Cur, cycle.caller, shares, U64_MAX),
              "minted")

CycleWithdraw ==
    Exit("withdraw", U64_MAX, svs1_withdraw(Cur, cycle.caller, cycle.amount, U64_MAX),
         "minted")

NextCycles ==
    \/ CycleDeposit
    \/ CycleRedeem
    \/ CycleMint
    \/ CycleWithdraw

SpecCycles == InitCycles /\ [][NextCycles]_vars

\* ------------------------------------------------------------------------
\* The max views on prepared vaults
\* ------------------------------------------------------------------------
\* the activity that precedes the views: nothing, a deposit by bob (on the
\* confidential vault: configured first and applied afterwards), a synced
\* donation, or both in either order
Prelude(p, k) ==
    LET deposit == IF p = "svs1" THEN <<"deposit">>
                   ELSE <<"configure_account", "deposit", "apply_pending">>
        donation == <<"donate", "sync">>
    IN CASE k = 0 -> <<>>
         [] k = 1 -> deposit
         [] k = 2 -> donation
         [] k = 3 -> deposit \o donation
         [] OTHER -> donation \o deposit

\* the ledger after one instruction of the prelude
PreludeStep(p, S, op) ==
    Committed(S,
        CASE op = "configure_account" -> configure_account(S, "bob", 0, TRUE, 0, TRUE)
          [] op = "deposit" -> IF p = "svs1" THEN svs1_deposit(S, "bob", 1000, 0)
                               ELSE svs2_deposit(S, "bob", 1000, 0)
          [] op = "apply_pending" ->
                apply_pending(S, "bob", S.shareAcct["bob"].pending, 1)
          [] op = "donate" -> TransferIn(S, Donor, 500)
          [] OTHER -> sync(S, S.vault.authority))

RECURSIVE Run(_, _, _)
Run(p, S, ops) ==
    IF ops = <<>> THEN S
    ELSE CHOOSE R \in {Run(p, T, Tail(ops)) : T \in {PreludeStep(p, S, Head(ops))}} : TRUE

InitViews ==
    \E p \in Programs, asset_decimals \in CycleDecimals, k \in Preludes :
        \E V \in {Committed(Empty, initialize(Empty, Creator, asset_decimals, VaultId, Auditor(p)))} :
            \E S \in {Run(p, V, Prelude(p, k))} :
                /\ program = p
                /\ vault = S.vault
                /\ supply = S.supply
                /\ assetBal = S.assetBal
                /\ custody = S.custody
                /\ shareAcct = S.shareAcct
                /\ events = S.events
                /\ last = NoCall
                /\ calc = NoCalc
                /\ cycle = NoCycle
                /\ snapshot = NoSnapshot
                /\ service = NoService

\* a view is simulated: the ledger is read, the returned value recorded
View(op, owner, r) ==
    /\ vault.initialized
    /\ last.op = "none"
    /\ last' = [NoCall EXCEPT !.op = op, !.caller = owner, !.err = r.err,
                              !.assets = r.val]
    /\ UNCHANGED <<program, vault, supply, assetBal, custody, shareAcct, events, calc,
                   cycle, snapshot, service>>

MaxDeposit == View("max_deposit", "none", max_deposit(Cur))

MaxMint == View("max_mint", "none", max_mint(Cur))

MaxWithdraw == \E owner \in Users : View("max_withdraw", owner, max_withdraw(Cur, owner))

MaxRedeem == \E owner \in Users : View("max_redeem", owner, max_redeem(Cur, owner))

NextViews ==
    \/ MaxDeposit
    \/ MaxMint
    \/ MaxWithdraw
    \/ MaxRedeem
    \/ Pause
    \/ Unpause
    \/ Return

SpecViews == InitViews /\ [][NextViews]_vars

\* ------------------------------------------------------------------------
\* The math engine called directly: the initial states draw the arguments,
\* the actions apply one function to them
\* ------------------------------------------------------------------------
\* largest decimals_offset passed to the math engine
MaxOffset == 10

Pow10(k) == checked_pow10(k).val

MathValues == {0, 1, 2, 3, 7, 100, 1000, 100000, 1000000, 999999999, U64_MAX}

MathTotals ==
    UNION {{Pow10(k) - 1, Pow10(k), Pow10(k) + 1} : k \in 0..9}
        \cup {U64_MAX - 1, U64_MAX}

MathSupplies == {0, 1, 999, 1000, 1000000, U64_MAX - 1000, U64_MAX}

InitMath ==
    /\ program = "none"
    /\ vault = NoVault
    /\ supply = 0
    /\ assetBal = InitialAssets
    /\ custody = 0
    /\ shareAcct = [u \in Users |-> PlainShareAccount]
    /\ events = <<>>
    /\ last = NoCall
    /\ cycle = NoCycle
    /\ snapshot = NoSnapshot
    /\ service = NoService
    /\ \E x \in MathValues, ta \in MathTotals, ts \in MathSupplies, d \in 0..MaxOffset :
          calc = [NoCalc EXCEPT !.x = x, !.ta = ta, !.ts = ts, !.d = d]

Applied(fn, floor, ceiling, back) ==
    /\ calc.fn = "none"
    /\ calc' = [calc EXCEPT !.fn = fn, !.floor = floor, !.ceiling = ceiling, !.back = back]
    /\ UNCHANGED <<program, vault, supply, assetBal, custody, shareAcct, events, last,
                   cycle, snapshot, service>>

\* mul_div(value = x, numerator = ta, denominator = ts, _)
CallMulDiv ==
    Applied("mul_div", mul_div(calc.x, calc.ta, calc.ts, "Floor"),
            mul_div(calc.x, calc.ta, calc.ts, "Ceiling"), Ok(0))

\* convert_to_shares(assets = x, total_assets = ta, total_shares = ts, d, _)
CallConvertToShares ==
    Applied("convert_to_shares",
            convert_to_shares(calc.x, calc.ta, calc.ts, calc.d, "Floor"),
            convert_to_shares(calc.x, calc.ta, calc.ts, calc.d, "Ceiling"), Ok(0))

\* convert_to_assets(shares = x, total_assets = ta, total_shares = ts, d, _)
CallConvertToAssets ==
    Applied("convert_to_assets",
            convert_to_assets(calc.x, calc.ta, calc.ts, calc.d, "Floor"),
            convert_to_assets(calc.x, calc.ta, calc.ts, calc.d, "Ceiling"), Ok(0))

\* assets -> shares at (ta, ts), then shares -> assets at (ta + x, ts + shares),
\* both Floor
RoundTrip(x, ta, ts, d) ==
    LET s == convert_to_shares(x, ta, ts, d, "Floor")
        ta2 == checked_add(ta, x)
        ts2 == checked_add(ts, s.val)
    IN IF ~IsOk(s) THEN s
       ELSE IF ~IsOk(ta2) THEN ta2
       ELSE IF ~IsOk(ts2) THEN ts2
       ELSE convert_to_assets(s.val, ta2.val, ts2.val, d, "Floor")

CallRoundTrip ==
    Applied("round_trip",
            convert_to_shares(calc.x, calc.ta, calc.ts, calc.d, "Floor"),
            Ok(0), RoundTrip(calc.x, calc.ta, calc.ts, calc.d))

NextMath ==
    \/ CallMulDiv
    \/ CallConvertToShares
    \/ CallConvertToAssets
    \/ CallRoundTrip

SpecMath == InitMath /\ [][NextMath]_vars

\* ------------------------------------------------------------------------
\* The proof backend (proof-backend/src): three endpoints behind the API key
\* middleware.  The backend keeps no state between two requests; `derived`
\* remembers the last key derivation for the properties below.
\* ------------------------------------------------------------------------
\* i64, modelled as a 16-bit two's complement word
I64_MAX == 32767

I64_MIN == -I64_MAX - 1

\* Config::default(): timestamp_tolerance_secs
DEFAULT_TIMESTAMP_TOLERANCE_SECS == 300

\* the word that a result outside the range of i64 wraps to
WrapI64(x) == ((x - I64_MIN) % (2 * (I64_MAX + 1))) + I64_MIN

\* the bytes that are signed
Message(prefix, timestamp, subject) ==
    [prefix |-> prefix, timestamp |-> timestamp, subject |-> subject]

NoMessage == Message("none", 0, "none")

\* the base64 text of the signature of a message under a wallet's key
Sign(key, message) == [wellformed |-> TRUE, signer |-> key, message |-> message]

\* text that is not the base64 of 64 bytes
Garbled == [wellformed |-> FALSE, signer |-> "none", message |-> NoMessage]

\* Signature::verify
Verify(signature, pubkey, message) ==
    signature.signer = pubkey /\ signature.message = message

construct_request_message(timestamp, token_account) ==
    Message("SVS_PROOF_REQUEST", timestamp, token_account)

construct_range_request_message(timestamp) ==
    Message("SVS_PROOF_REQUEST", timestamp, "range")

\* the message of the purpose-bound signature the key is derived from
ElGamalMessage(token_account) == Message("ElGamalSecretKey", 0, token_account)

parse_pubkey(s) == IF s = "invalid" THEN Err("InvalidPubkey") ELSE Ok(s)

parse_signature(s) == IF ~s.wellformed THEN Err("InvalidSignature") ELSE Ok(s)

parse_ciphertext(s) == IF s = "invalid" THEN Err("BadRequest") ELSE Ok(s)

\* req.amount.parse() and the parse of each of req.amounts
parse_amount(s) == IF s = "invalid" THEN Err("BadRequest") ELSE Ok(s)

parse_opening(s) == IF s = "invalid" THEN Err("BadRequest") ELSE Ok(s)

\* the first error of parsing the elements of a list, or the list
RECURSIVE ParseAll(_, _)
ParseAll(list, bad) ==
    IF list = <<>> THEN Ok(list)
    ELSE IF Head(list) = bad THEN Err("BadRequest")
    ELSE LET rest == ParseAll(Tail(list), bad)
         IN IF ~IsOk(rest) THEN rest ELSE Ok(list)

\* hashv(&[signature, token_account]): the hash is taken to be free of
\* collisions on its two fixed-length inputs
derive_elgamal_seed(signature, token_account) ==
    [hashv |-> <<signature, token_account>>]

\* ElGamalKeypair::from_seed
ElGamalKeypairFromSeed(seed) == [secret |-> seed, pubkey |-> [of |-> seed]]

derive_elgamal_keypair(elgamal_signature, token_account) ==
    Ok(ElGamalKeypairFromSeed(derive_elgamal_seed(elgamal_signature, token_account)))

generate_pubkey_validity_proof(elgamal_keypair) ==
    Ok([type |-> "PubkeyValidityProof", pubkey |-> elgamal_keypair.pubkey,
        statement |-> <<>>])

generate_equality_proof(elgamal_keypair, ciphertext, amount) ==
    Ok([type |-> "CiphertextCommitmentEqualityProof", pubkey |-> elgamal_keypair.pubkey,
        statement |-> <<ciphertext, amount>>])

\* mutant: any batch size passed on to the proof library
generate_range_proof_any_batch(amounts, openings, library_ok) ==
    IF Len(amounts) # Len(openings) THEN Err("BadRequest")
    ELSE IF ~library_ok THEN Err("ProofGeneration")
    ELSE Ok([type |-> "BatchedRangeProofU64", pubkey |-> [of |-> "none"],
             statement |-> amounts])

\* library_ok: whether BatchedRangeProofU64Data::new returns a proof
generate_range_proof(amounts, openings, library_ok) ==
    IF Len(amounts) # Len(openings) THEN Err("BadRequest")
    ELSE IF Len(amounts) \notin {1, 2, 4, 8} THEN Err("BadRequest")
    ELSE IF ~library_ok THEN Err("ProofGeneration")
    ELSE Ok([type |-> "BatchedRangeProofU64", pubkey |-> [of |-> "none"],
             statement |-> amounts])

verify_request_signature(wallet_pubkey, timestamp, token_account, signature) ==
    IF ~Verify(signature, wallet_pubkey, construct_request_message(timestamp, token_account))
    THEN Err("InvalidSignature") ELSE Ok(0)

verify_range_request_signature(wallet_pubkey, timestamp, signature) ==
    IF ~Verify(signature, wallet_pubkey, construct_range_request_message(timestamp))
    THEN Err("InvalidSignature") ELSE Ok(0)

\* (now - timestamp).abs() > tolerance_secs.  A difference outside i64 and
\* the absolute value of i64::MIN panic in a build with overflow checks and
\* wrap in a build without.
validate_timestamp(now, timestamp, tolerance_secs, overflow_checks) ==
    LET exact == now - timestamp
        difference == WrapI64(exact)
    IN IF overflow_checks /\ (exact # difference \/ difference = I64_MIN)
       THEN Err("Panic")
       ELSE LET diff == IF difference = I64_MIN THEN I64_MIN
                        ELSE IF difference < 0 THEN -difference ELSE difference
            IN IF diff > tolerance_secs THEN Err("RequestExpired") ELSE Ok(0)

\* what a handler leaves behind: the error code, the keypairs derived on the
\* way and the proof returned
Rejected(e) == [err |-> e, keys |-> {}, proofs |-> {}]

Answered(keys, proof) ==
    IF IsOk(proof) THEN [err |-> "Ok", keys |-> keys, proofs |-> {proof.val}]
    ELSE [err |-> proof.err, keys |-> keys, proofs |-> {}]

\* mutant: the keypair derived from the signature of the request
pubkey_validity_key_of_request(config, now, req) ==
    LET t == validate_timestamp(now, req.timestamp, config.timestamp_tolerance_secs,
                                config.overflow_checks)
    IN IF ~IsOk(t) THEN Rejected(t.err)
    ELSE IF ~IsOk(parse_pubkey(req.wallet_pubkey)) THEN Rejected("InvalidPubkey")
    ELSE IF ~IsOk(parse_pubkey(req.token_account)) THEN Rejected("InvalidPubkey")
    ELSE IF ~IsOk(parse_signature(req.request_signature)) THEN Rejected("InvalidSignature")
    ELSE IF ~IsOk(parse_signature(req.elgamal_signature)) THEN Rejected("InvalidSignature")
    ELSE
    LET v == verify_request_signature(req.wallet_pubkey, req.timestamp,
                                      req.token_account, req.request_signature)
    IN IF ~IsOk(v) THEN Rejected(v.err)
    ELSE
    LET elgamal_keypair == derive_elgamal_keypair(req.request_signature, req.token_account)
    IN Answered({elgamal_keypair.val}, generate_pubkey_validity_proof(elgamal_keypair.val))

\* POST /api/proofs/pubkey-validity
pubkey_validity(config, now, req) ==
    LET t == validate_timestamp(now, req.timestamp, config.timestamp_tolerance_secs,
                                config.overflow_checks)
    IN IF ~IsOk(t) THEN Rejected(t.err)
    ELSE IF ~IsOk(parse_pubkey(req.wallet_pubkey)) THEN Rejected("InvalidPubkey")
    ELSE IF ~IsOk(parse_pubkey(req.token_account)) THEN Rejected("InvalidPubkey")
    ELSE IF ~IsOk(parse_signature(req.request_signature)) THEN Rejected("InvalidSignature")
    ELSE IF ~IsOk(parse_signature(req.elgamal_signature)) THEN Rejected("InvalidSignature")
    ELSE
    LET v == verify_request_signature(req.wallet_pubkey, req.timestamp,
                                      req.token_account, req.request_signature)
    IN IF ~IsOk(v) THEN Rejected(v.err)
    ELSE
    LET elgamal_keypair == derive_elgamal_keypair(req.elgamal_signature, req.token_account)
    IN Answered({elgamal_keypair.val}, generate_pubkey_validity_proof(elgamal_keypair.val))

\* POST /api/proofs/equality
equality_proof(config, now, req) ==
    LET t == validate_timestamp(now, req.timestamp, config.timestamp_tolerance_secs,
                                config.overflow_checks)
    IN IF ~IsOk(t) THEN Rejected(t.err)
    ELSE IF ~IsOk(parse_pubkey(req.wallet_pubkey)) THEN Rejected("InvalidPubkey")
    ELSE IF ~IsOk(parse_pubkey(req.token_account)) THEN Rejected("InvalidPubkey")
    ELSE IF ~IsOk(parse_signature(req.request_signature)) THEN Rejected("InvalidSignature")
    ELSE IF ~IsOk(parse_signature(req.elgamal_signature)) THEN Rejected("InvalidSignature")
    ELSE IF ~IsOk(parse_ciphertext(req.current_ciphertext)) THEN Rejected("BadRequest")
    ELSE IF ~IsOk(parse_amount(req.amount)) THEN Rejected("BadRequest")
    ELSE
    LET v == verify_request_signature(req.wallet_pubkey, req.timestamp,
                                      req.token_account, req.request_signature)
    IN IF ~IsOk(v) THEN Rejected(v.err)
    ELSE
    LET elgamal_keypair == derive_elgamal_keypair(req.elgamal_signature, req.token_account)
    IN Answered({elgamal_keypair.val},
                generate_equality_proof(elgamal_keypair.val, req.current_ciphertext,
                                        req.amount))

\* POST /api/proofs/range
range_proof(config, now, req) ==
    LET t == validate_timestamp(now, req.timestamp, config.timestamp_tolerance_secs,
                                config.overflow_checks)
    IN IF ~IsOk(t) THEN Rejected(t.err)
    ELSE IF ~IsOk(parse_pubkey(req.wallet_pubkey)) THEN Rejected("InvalidPubkey")
    ELSE IF ~IsOk(parse_signature(req.request_signature)) THEN Rejected("InvalidSignature")
    ELSE
    LET v == verify_range_request_signature(req.wallet_pubkey, req.timestamp,
                                            req.request_signature)
    IN IF ~IsOk(v) THEN Rejected(v.err)
    ELSE IF ~IsOk(ParseAll(req.amounts, "invalid")) THEN Rejected("BadRequest")
    ELSE IF ~IsOk(ParseAll(req.commitment_blindings, "invalid")) THEN Rejected("BadRequest")
    ELSE Answered({}, generate_range_proof(req.amounts, req.commitment_blindings,
                                           req.library_ok))

\* the handler of the endpoint of the request
Route(config, now, req) ==
    IF req.endpoint = "pubkey_validity" THEN pubkey_validity(config, now, req)
    ELSE IF req.endpoint = "equality" THEN equality_proof(config, now, req)
    ELSE range_proof(config, now, req)

\* the x-api-key header is checked before the handler runs
api_key_middleware(config, req, response) ==
    IF config.api_keys = {} THEN response
    ELSE IF req.api_key = "none" THEN Rejected("Unauthorized")
    ELSE IF req.api_key \notin config.api_keys THEN Rejected("Unauthorized")
    ELSE response

NoRequest ==
    [endpoint |-> "none", api_key |-> "none", wallet_pubkey |-> "none",
     token_account |-> "none", timestamp |-> 0, request_signature |-> Garbled,
     elgamal_signature |-> Garbled, current_ciphertext |-> "none", amount |-> "none",
     amounts |-> <<>>, commitment_blindings |-> <<>>, library_ok |-> FALSE]

NoResult == Rejected("none")

\* bound on the seconds that pass
MaxTicks == 1

\* bound on the size of a batch of amounts
MaxBatch == 9

StartTime == 1000

ApiKeys == {"none", "key1"}

Wallets == {"alice", "invalid"}

Signers == {"alice", "bob"}

TokenAccounts == {"alice_shares", "bob_shares"}

\* timestamps around the edges of the tolerance and at the distance of i64::MIN
Timestamps(now, tolerance) ==
    {now - tolerance - 1, now - tolerance, now, now + tolerance, now + tolerance + 1,
     now + I64_MIN}

\* signatures a request can carry: the wallet's over the message, another
\* key's over it, the wallet's over another timestamp or another subject, and
\* text that is no signature
RequestSignatures(message) ==
    {Sign(signer, message) : signer \in Signers}
      \cup {Sign("alice", [message EXCEPT !.timestamp = @ + 1]),
            Sign("alice", [message EXCEPT !.subject = IF @ = "range" THEN "alice_shares"
                                                      ELSE "range"]),
            Garbled}

ElGamalSignatures ==
    {Sign("alice", ElGamalMessage(token_account)) : token_account \in TokenAccounts}
      \cup {Garbled}

Batch(n, text) == [i \in 1..n |-> text]

\* the lists of amounts and blindings of a range request
Batches ==
    {<<Batch(n, "100"), Batch(k, "opening")>> : n \in 0..MaxBatch, k \in {8}}
      \cup {<<Batch(n, "100"), Batch(n, "opening")>> : n \in 0..MaxBatch}
      \cup {<<Batch(2, "invalid"), Batch(2, "opening")>>,
            <<Batch(2, "100"), Batch(2, "invalid")>>}

InitProofs ==
    /\ program = "none"
    /\ vault = NoVault
    /\ supply = 0
    /\ assetBal = InitialAssets
    /\ custody = 0
    /\ shareAcct = [u \in Users |-> PlainShareAccount]
    /\ events = <<>>
    /\ last = NoCall
    /\ calc = NoCalc
    /\ cycle = NoCycle
    /\ snapshot = NoSnapshot
    /\ \E overflow_checks \in BOOLEAN :
          service = [started |-> TRUE,
                     config |-> [api_keys |-> {"key1"},
                                 timestamp_tolerance_secs |-> DEFAULT_TIMESTAMP_TOLERANCE_SECS,
                                 overflow_checks |-> overflow_checks],
                     now |-> StartTime, request |-> NoRequest, result |-> NoResult,
                     derived |-> {}]

Waiting == service.started /\ service.request.endpoint = "none"

\* a request goes through the middleware and the handler of its endpoint
Handle(req) ==
    /\ service' = [service EXCEPT
                     !.request = req,
                     !.result = api_key_middleware(service.config, req,
                                                   Route(service.config, service.now, req))]
    /\ UNCHANGED <<program, vault, supply, assetBal, custody, shareAcct, events, last,
                   calc, cycle, snapshot>>

PubkeyValidity ==
    /\ Waiting
    /\ \E api_key \in ApiKeys, wallet_pubkey \in Wallets,
       token_account \in TokenAccounts \cup {"invalid"},
       timestamp \in Timestamps(service.now, service.config.timestamp_tolerance_secs),
       elgamal_signature \in ElGamalSignatures :
        \E request_signature \in RequestSignatures(construct_request_message(timestamp, token_account)) :
            Handle([NoRequest EXCEPT !.endpoint = "pubkey_validity", !.api_key = api_key,
                                     !.wallet_pubkey = wallet_pubkey,
                                     !.token_account = token_account,
                                     !.timestamp = timestamp,
                                     !.request_signature = request_signature,
                                     !.elgamal_signature = elgamal_signature])

EqualityProof ==
    /\ Waiting
    /\ \E api_key \in ApiKeys, wallet_pubkey \in Wallets,
       token_account \in TokenAccounts \cup {"invalid"},
       timestamp \in Timestamps(service.now, service.config.timestamp_tolerance_secs),
       elgamal_signature \in ElGamalSignatures,
       text \in {<<"ciphertext", "1000">>, <<"invalid", "1000">>, <<"ciphertext", "invalid">>} :
        \E request_signature \in RequestSignatures(construct_request_message(timestamp, token_account)) :
            Handle([NoRequest EXCEPT !.endpoint = "equality", !.api_key = api_key,
                                     !.wallet_pubkey = wallet_pubkey,
                                     !.token_account = token_account,
                                     !.timestamp = timestamp,
                                     !.request_signature = request_signature,
                                     !.elgamal_signature = elgamal_signature,
                                     !.current_ciphertext = text[1],
                                     !.amount = text[2]])

RangeProof ==
    /\ Waiting
    /\ \E api_key \in ApiKeys, wallet_pubkey \in Wallets,
       timestamp \in Timestamps(service.now, service.config.timestamp_tolerance_secs),
       batch \in Batches, library_ok \in BOOLEAN :
        \E request_signature \in RequestSignatures(construct_range_request_message(timestamp)) :
            Handle([NoRequest EXCEPT !.endpoint = "range", !.api_key = api_key,
                                     !.wallet_pubkey = wallet_pubkey,
                                     !.timestamp = timestamp,
                                     !.request_signature = request_signature,
                                     !.amounts = batch[1],
                                     !.commitment_blindings = batch[2],
                                     !.library_ok = library_ok])

\* the response is sent; nothing of the request stays in the backend
Respond ==
    /\ service.started
    /\ service.request.endpoint # "none"
    /\ service' = [service EXCEPT
                     !.request = NoRequest,
                     !.result = NoResult,
                     !.derived = IF service.result.keys = {} THEN @
                                 ELSE {[signature |-> service.request.elgamal_signature,
                                        token_account |-> service.request.token_account,
                                        timestamp |-> service.request.timestamp,
                                        keypair |-> keypair] :
                                          keypair \in service.result.keys}]
    /\ UNCHANGED <<program, vault, supply, assetBal, custody, shareAcct, events, last,
                   calc, cycle, snapshot>>

\* a second passes
Tick ==
    /\ Waiting
    /\ service.now < StartTime + MaxTicks
    /\ service' = [service EXCEPT !.now = @ + 1]
    /\ UNCHANGED <<program, vault, supply, assetBal, custody, shareAcct, events, last,
                   calc, cycle, snapshot>>

NextProofs ==
    \/ PubkeyValidity
    \/ EqualityProof
    \/ RangeProof
    \/ Respond
    \/ Tick

SpecProofs == InitProofs /\ [][NextProofs]_vars

\* ------------------------------------------------------------------------
\* Exact arithmetic for reference values, where the product is within the
\* model checker's integers
\* ------------------------------------------------------------------------
\* 10^d fits in a word of the modelled width (2^30 - 1) exactly when d <= 9
PowFits(d) == d <= 9

Fits(a, b) == b = 0 \/ a <= 2147483647 \div b

ExactFloor(a, b, c) == (a * b) \div c

ExactCeiling(a, b, c) == ((a * b) \div c) + (IF (a * b) % c = 0 THEN 0 ELSE 1)

\* ------------------------------------------------------------------------
\* Claims on the math engine (checked under SpecMath)
\* ------------------------------------------------------------------------
\* C7: a single round trip never profits the user: with
\* s = convert_to_shares(a, TA, TS, d, Floor), whenever both conversions
\* succeed, convert_to_assets(s, TA + a, TS + s, d, Floor) <= a.
C7_RoundTripNoProfit ==
    (calc.fn = "round_trip" /\ IsOk(calc.floor) /\ IsOk(calc.back))
        => calc.back.val <= calc.x

C7_Witness ==
    /\ calc.fn = "round_trip"
    /\ IsOk(calc.back)
    /\ calc.floor.val > 0
    /\ calc.ta > 0
    /\ calc.ts > 0
    /\ calc.back.val > 0
    /\ calc.back.val < calc.x

\* C9 as stated: for an empty vault (total_shares = 0) holding a donation D,
\* convert_to_shares(1, D, 0, d, Floor) = 0 whenever D >= 10^d, for d in 0..9.
C9_AsStated ==
    (/\ calc.fn = "convert_to_shares"
     /\ calc.x = 1
     /\ calc.ts = 0
     /\ calc.d <= 9
     /\ calc.ta >= Pow10(calc.d))
        => calc.floor = Ok(0)

\* C9 amended: convert_to_shares(1, D, 0, d, Floor) = 0 whenever
\* 10^d <= D < u64::MAX, for d in 0..9; at D = u64::MAX the conversion fails
\* with MathOverflow (total_assets + 1 overflows) and returns no value.
C9_InflationFloor ==
    (/\ calc.fn = "convert_to_shares"
     /\ calc.x = 1
     /\ calc.ts = 0
     /\ calc.d <= 9
     /\ calc.ta >= Pow10(calc.d))
        => IF calc.ta < U64_MAX THEN calc.floor = Ok(0)
           ELSE calc.floor = Err("MathOverflow")

C9_Witness ==
    /\ calc.fn = "convert_to_shares"
    /\ calc.x = 1
    /\ calc.ts = 0
    /\ calc.d = 9
    /\ calc.ta = Pow10(9)
    /\ calc.floor = Ok(0)

\* C10: for denominator > 0, when both calls succeed, mul_div Ceiling >=
\* mul_div Floor, and Floor <= value * numerator / denominator <= Ceiling as
\* exact rationals; Ceiling >= Floor also for convert_to_shares and for
\* convert_to_assets on equal inputs.
C10_CeilingAboveFloor ==
    /\ (/\ calc.fn \in {"mul_div", "convert_to_shares", "convert_to_assets"}
        /\ IsOk(calc.floor)
        /\ IsOk(calc.ceiling))
          => /\ calc.ceiling.val >= calc.floor.val
             /\ calc.ceiling.val <= calc.floor.val + 1
    /\ (/\ calc.fn = "mul_div"
        /\ calc.ts > 0
        /\ IsOk(calc.floor)
        /\ IsOk(calc.ceiling)
        /\ Fits(calc.x, calc.ta)
        /\ Fits(calc.ceiling.val, calc.ts))
          => /\ calc.floor.val * calc.ts <= calc.x * calc.ta
             /\ calc.x * calc.ta <= calc.ceiling.val * calc.ts

C10_Witness ==
    /\ calc.fn = "mul_div"
    /\ calc.ts > 1
    /\ IsOk(calc.floor)
    /\ IsOk(calc.ceiling)
    /\ calc.floor.val > 0
    /\ calc.ceiling.val = calc.floor.val + 1
    /\ Fits(calc.x, calc.ta)
    /\ Fits(calc.ceiling.val, calc.ts)

\* C11: convert_to_shares(assets, TA, TS, d, Floor) equals
\* floor(assets * (TS + 10^d) / (TA + 1)) for every input in range; with
\* TA = 1_000_000, TS = 1_000_000, d = 3 a deposit of 100_000 yields 100_099
\* shares, and with TA = 0, TS = 0, d = 3 a deposit of 1_000_000 yields
\* exactly 1_000_000_000 shares.
C11_ReferenceShares ==
    calc.fn = "convert_to_shares" =>
        /\ (/\ PowFits(calc.d)
            /\ calc.ts <= U64_MAX - 10 ^ calc.d
            /\ calc.ta < U64_MAX
            /\ Fits(calc.x, calc.ts + 10 ^ calc.d))
              => LET reference == ExactFloor(calc.x, calc.ts + 10 ^ calc.d, calc.ta + 1)
                 IN IF reference <= U64_MAX THEN calc.floor = Ok(reference)
                    ELSE ~IsOk(calc.floor)
        /\ (calc.x = 100000 /\ calc.ta = 1000000 /\ calc.ts = 1000000 /\ calc.d = 3)
              => calc.floor = Ok(100099)
        /\ (calc.x = 1000000 /\ calc.ta = 0 /\ calc.ts = 0 /\ calc.d = 3)
              => calc.floor = Ok(1000000000)

\* the proportional example, whose product does not fit in a machine word
C11_Witness ==
    /\ calc.fn = "convert_to_shares"
    /\ calc.x = 100000
    /\ calc.ta = 1000000
    /\ calc.ts = 1000000
    /\ calc.d = 3
    /\ calc.floor = Ok(100099)
    /\ calc.ceiling = Ok(100100)

\* C12: mul_div is total and never wraps: DivisionByZero whenever the
\* denominator is 0, in both rounding modes and whatever the other arguments;
\* for a positive denominator MathOverflow exactly when the rounded quotient
\* exceeds the largest u64, the exact rounded quotient otherwise; the
\* conversions fail with MathOverflow when 10^decimals_offset,
\* total_shares + 10^decimals_offset or total_assets + 1 does not fit in a
\* u64, and are the mul_div of the virtual totals otherwise.
C12_MulDivOutcome ==
    /\ calc.fn = "mul_div" =>
          /\ calc.ts = 0 => /\ calc.floor = Err("DivisionByZero")
                            /\ calc.ceiling = Err("DivisionByZero")
          /\ calc.ts > 0 =>
                /\ \A r \in {calc.floor, calc.ceiling} :
                      /\ r.err \in {"Ok", "MathOverflow"}
                      /\ r.val \in 0..U64_MAX
                /\ Fits(calc.x, calc.ta) =>
                      /\ calc.floor =
                            IF ExactFloor(calc.x, calc.ta, calc.ts) > U64_MAX
                            THEN Err("MathOverflow")
                            ELSE Ok(ExactFloor(calc.x, calc.ta, calc.ts))
                      /\ calc.ceiling =
                            IF ExactCeiling(calc.x, calc.ta, calc.ts) > U64_MAX
                            THEN Err("MathOverflow")
                            ELSE Ok(ExactCeiling(calc.x, calc.ta, calc.ts))
                /\ (calc.ta > 0 /\ calc.x \div calc.ts > U64_MAX \div calc.ta) =>
                      /\ calc.floor = Err("MathOverflow")
                      /\ calc.ceiling = Err("MathOverflow")
    /\ calc.fn \in {"convert_to_shares", "convert_to_assets"} =>
          IF \/ ~PowFits(calc.d)
             \/ calc.ts > U64_MAX - 10 ^ calc.d
             \/ calc.ta > U64_MAX - 1
          THEN /\ calc.floor = Err("MathOverflow")
               /\ calc.ceiling = Err("MathOverflow")
          ELSE LET virtual_shares == calc.ts + 10 ^ calc.d
                   virtual_assets == calc.ta + 1
               IN IF calc.fn = "convert_to_shares"
                  THEN /\ calc.floor =
                             mul_div(calc.x, virtual_shares, virtual_assets, "Floor")
                       /\ calc.ceiling =
                             mul_div(calc.x, virtual_shares, virtual_assets, "Ceiling")
                  ELSE /\ calc.floor =
                             mul_div(calc.x, virtual_assets, virtual_shares, "Floor")
                       /\ calc.ceiling =
                             mul_div(calc.x, virtual_assets, virtual_shares, "Ceiling")

\* a conversion that fails because total_assets + 1 does not fit, although
\* its quotient would
C12_Witness ==
    /\ calc.fn = "convert_to_assets"
    /\ calc.ta = U64_MAX
    /\ calc.x = 1
    /\ calc.d = 3
    /\ calc.ts = 1000000
    /\ calc.floor = Err("MathOverflow")
    /\ calc.ceiling = Err("MathOverflow")

\* ------------------------------------------------------------------------
\* Claims on the ledger (checked under Spec)
\* ------------------------------------------------------------------------
UserOps == {"deposit", "mint", "withdraw", "redeem"}

\* an instruction was processed in this step and returned Ok
Succeeded(op) == last'.op = op /\ last'.err = "Ok"

\* the shares a holder owns, over the three phases
Held(acct) == acct.amount + acct.pending + acct.available

\* C1: while the vault is paused, deposit, mint, withdraw and redeem fail with
\* VaultPaused and change nothing in the ledger; the paused flag is cleared
\* only by a successful unpause, so they succeed again only after one.
C1_PausedBlocksUserOps ==
    [][ /\ (vault.paused /\ last'.op \in UserOps)
            => (last'.err = "VaultPaused" /\ UNCHANGED ledgerVars)
        /\ (vault.paused /\ ~vault'.paused) => Succeeded("unpause")
      ]_vars

C1_Witness ==
    /\ vault.paused
    /\ last.op = "redeem"
    /\ last.err = "VaultPaused"
    /\ last.a > 0
    /\ Held(shareAcct[last.caller]) >= last.a

C3_DepositEffect ==
    [][ Succeeded("deposit") =>
          LET user == last'.caller
              assets == last'.a
              shares == last'.shares
              virtual_shares == supply + Pow10(vault.decimals_offset)
          IN /\ Ok(shares) = convert_to_shares(assets, vault.total_assets, supply,
                                               vault.decimals_offset, "Floor")
             /\ Fits(assets, virtual_shares)
                   => shares = ExactFloor(assets, virtual_shares, vault.total_assets + 1)
             /\ supply' = supply + shares
             /\ Held(shareAcct'[user]) = Held(shareAcct[user]) + shares
             /\ \A other \in Users \ {user} : shareAcct'[other] = shareAcct[other]
             /\ assetBal' = [assetBal EXCEPT ![user] = @ - assets]
             /\ custody' = custody + assets
             /\ vault' = [vault EXCEPT !.total_assets = @ + assets]
      ]_vars

C3_Witness ==
    /\ last.op = "deposit"
    /\ last.err = "Ok"
    /\ program = "svs2"
    /\ supply > last.shares
    /\ last.shares > 0
    /\ custody > vault.total_assets

\* C4: a successful mint(shares, max_assets_in) mints exactly shares and
\* charges the caller exactly
\* ceil(shares * (total_assets + 1) / (total_shares + 10^decimals_offset))
\* assets, computed from the state before the call; the custody balance and
\* cached total_assets grow by the charged amount.
C4_MintEffect ==
    [][ Succeeded("mint") =>
          LET user == last'.caller
              shares == last'.a
              assets == last'.assets
              virtual_shares == supply + Pow10(vault.decimals_offset)
          IN /\ Ok(assets) = convert_to_assets(shares, vault.total_assets, supply,
                                               vault.decimals_offset, "Ceiling")
             /\ Fits(shares, vault.total_assets + 1)
                   => assets = ExactCeiling(shares, vault.total_assets + 1, virtual_shares)
             /\ supply' = supply + shares
             /\ shareAcct' = [shareAcct EXCEPT ![user].amount = @ + shares]
             /\ assetBal' = [assetBal EXCEPT ![user] = @ - assets]
             /\ custody' = custody + assets
             /\ vault' = [vault EXCEPT !.total_assets = @ + assets]
      ]_vars

\* a mint that is charged a rounded-up amount
C4_Witness ==
    /\ last.op = "mint"
    /\ last.err = "Ok"
    /\ last.assets > 1
    /\ supply > last.a
    /\ last.assets < 1000

\* C5: redeem(shares, min_assets_out) of the plain vault, its checks taken in
\* the order the handler makes them: it fails with InsufficientShares when the
\* caller holds fewer than shares; it never pays out more than cached
\* total_assets (InsufficientAssets); when it succeeds it burns exactly shares
\* from the caller, pays exactly
\* floor(shares * (total_assets + 1) / (total_shares + 10^decimals_offset))
\* and lowers cached total_assets by that payout; and it succeeds whenever the
\* caller holds the shares and the payout meets the caller's bound.
C5_RedeemEffect ==
    [][ last'.op = "redeem" =>
          LET user == last'.caller
              shares == last'.a
              min_assets_out == last'.b
              held == shareAcct[user].amount
              virtual_shares == supply + Pow10(vault.decimals_offset)
              payout == convert_to_assets(shares, vault.total_assets, supply,
                                          vault.decimals_offset, "Floor")
              open == ~vault.paused /\ shares > 0
          IN /\ (program = "svs1" /\ held < shares) => last'.err # "Ok"
             /\ (program = "svs1" /\ open /\ held < shares)
                   => last'.err = "InsufficientShares"
             /\ (IsOk(payout) /\ payout.val > vault.total_assets) => last'.err # "Ok"
             /\ (/\ open
                 /\ program = "svs1" => held >= shares
                 /\ IsOk(payout)
                 /\ payout.val >= min_assets_out
                 /\ payout.val > vault.total_assets)
                   => last'.err = "InsufficientAssets"
             /\ (/\ program = "svs1"
                 /\ open
                 /\ held >= shares
                 /\ IsOk(payout)
                 /\ payout.val >= min_assets_out
                 /\ payout.val <= vault.total_assets)
                   => last'.err = "Ok"
             /\ last'.err = "Ok" =>
                   /\ Ok(last'.assets) = payout
                   /\ Fits(shares, vault.total_assets + 1)
                         => last'.assets =
                               ExactFloor(shares, vault.total_assets + 1, virtual_shares)
                   /\ supply' = supply - shares
                   /\ Held(shareAcct'[user]) = Held(shareAcct[user]) - shares
                   /\ program = "svs1"
                         => shareAcct' = [shareAcct EXCEPT ![user].amount = @ - shares]
                   /\ assetBal' = [assetBal EXCEPT ![user] = @ + last'.assets]
                   /\ custody' = custody - last'.assets
                   /\ vault' = [vault EXCEPT !.total_assets = @ - last'.assets]
      ]_vars

\* a redeem of the plain vault whose payout is positive and rounded down
C5_Witness ==
    /\ program = "svs1"
    /\ last.op = "redeem"
    /\ last.err = "Ok"
    /\ last.assets > 0
    /\ Fits(last.a, vault.total_assets + last.assets + 1)
    /\ (last.a * (vault.total_assets + last.assets + 1))
          % (supply + last.a + Pow10(vault.decimals_offset)) # 0

\* C6: no operation succeeds at a rate worse than the caller's bound: a
\* successful deposit mints at least min_shares_out, a successful mint charges
\* at most max_assets_in, a successful withdraw burns at most max_shares_in, a
\* successful redeem pays at least min_assets_out; a call that reaches the
\* slippage check with a rate beyond its bound fails with SlippageExceeded,
\* whatever operation moved the rate before the call.
C6_SlippageBounds ==
    [][ LET user == last'.caller
            a == last'.a
            bound == last'.b
            d == vault.decimals_offset
            open == ~vault.paused /\ a > 0
        IN /\ Succeeded("deposit") => supply' - supply >= bound
           /\ Succeeded("mint") => assetBal[user] - assetBal'[user] <= bound
           /\ Succeeded("withdraw") => supply - supply' <= bound
           /\ Succeeded("redeem") => assetBal'[user] - assetBal[user] >= bound
           /\ (last'.op = "deposit" /\ open /\ a >= MIN_DEPOSIT_AMOUNT) =>
                 LET q == convert_to_shares(a, vault.total_assets, supply, d, "Floor")
                 IN (IsOk(q) /\ q.val < bound) => last'.err = "SlippageExceeded"
           /\ (last'.op = "mint" /\ open) =>
                 LET q == convert_to_assets(a, vault.total_assets, supply, d, "Ceiling")
                 IN (IsOk(q) /\ q.val > bound) => last'.err = "SlippageExceeded"
           /\ (last'.op = "withdraw" /\ open) =>
                 LET q == convert_to_shares(a, vault.total_assets, supply, d, "Ceiling")
                 IN (IsOk(q) /\ q.val > bound) => last'.err = "SlippageExceeded"
           /\ (/\ last'.op = "redeem"
               /\ open
               /\ program = "svs1" => shareAcct[user].amount >= a) =>
                 LET q == convert_to_assets(a, vault.total_assets, supply, d, "Floor")
                 IN (IsOk(q) /\ q.val < bound) => last'.err = "SlippageExceeded"
      ]_vars

\* a deposit of 1000 with the bound the empty vault quoted for it (1000 shares
\* at offset 0), rejected because a synced donation moved the rate
C6_Witness ==
    /\ last.op = "deposit"
    /\ last.err = "SlippageExceeded"
    /\ last.a = 1000
    /\ last.b = 1000
    /\ vault.decimals_offset = 0
    /\ supply = 0
    /\ vault.total_assets = 500

\* C8: while one caller runs entry/exit cycles (a deposit followed by a redeem
\* of exactly the shares received, or a mint followed by a withdraw of exactly
\* the assets paid) and nothing else touches the vault, the caller's asset
\* balance is never greater than when the cycles started and the vault's
\* total_assets is never lower.
C8_CyclesNeverProfit ==
    /\ assetBal[cycle.caller] <= cycle.start_assets
    /\ vault.total_assets >= cycle.start_total

\* two completed cycles after which the caller has lost assets to rounding
\* and the vault has kept them
C8_Witness ==
    /\ cycle.completed >= 2
    /\ cycle.phase = "idle"
    /\ assetBal[cycle.caller] < cycle.start_assets
    /\ vault.total_assets > cycle.start_total

AdminOps == {"pause", "unpause", "transfer_authority", "sync"}

\* the events of one type, in log order
EventsOf(log, type) == SelectSeq(log, LAMBDA e : e.type = type)

\* C13: the pause flag is edge-triggered: pause on a paused vault and unpause
\* on an unpaused vault fail (with VaultPaused when signed by the authority),
\* leave the flag as it was and emit nothing; a successful pause finds the flag
\* clear and sets it, a successful unpause finds it set and clears it, so two
\* pauses (or two unpauses) with no opposite call between never both succeed;
\* the VaultStatusChanged events in the log alternate in value.
C13_PauseEdgeTriggered ==
    [][ /\ ((last'.op = "pause" /\ vault.paused) \/ (last'.op = "unpause" /\ ~vault.paused))
            => /\ last'.err # "Ok"
               /\ last'.caller = vault.authority => last'.err = "VaultPaused"
               /\ UNCHANGED ledgerVars
        /\ Succeeded("pause") =>
              /\ ~vault.paused
              /\ vault' = [vault EXCEPT !.paused = TRUE]
              /\ events' = Append(events, VaultStatusChanged(TRUE))
        /\ Succeeded("unpause") =>
              /\ vault.paused
              /\ vault' = [vault EXCEPT !.paused = FALSE]
              /\ events' = Append(events, VaultStatusChanged(FALSE))
        /\ LET status == EventsOf(events', "VaultStatusChanged")
           IN /\ \A i \in 1..Len(status) : status[i].paused = (i % 2 = 1)
              /\ vault'.paused = (Len(status) % 2 = 1)
      ]_vars

\* the authority pauses a vault it has already paused
C13_Witness ==
    /\ last.op = "pause"
    /\ last.caller = vault.authority
    /\ last.err = "VaultPaused"
    /\ vault.paused
    /\ events[Len(events)] = VaultStatusChanged(TRUE)

\* C14: pause, unpause, transfer_authority and sync succeed only when the
\* signer is the vault's current authority; any other signer gets Unauthorized
\* and nothing changes; the paused flag and the authority field change only in
\* a successful admin call signed by the authority of that moment.
C14_AdminOnly ==
    [][ /\ last'.op \in AdminOps =>
              /\ last'.err = "Ok" => last'.caller = vault.authority
              /\ last'.caller # vault.authority
                    => (last'.err = "Unauthorized" /\ UNCHANGED ledgerVars)
        /\ (vault'.paused # vault.paused \/ vault'.authority # vault.authority)
              => /\ last'.op \in AdminOps \ {"sync"}
                 /\ last'.err = "Ok"
                 /\ last'.caller = vault.authority
      ]_vars

\* someone who is not the authority tries to sync after a donation
C14_Witness ==
    /\ last.op = "sync"
    /\ last.caller # vault.authority
    /\ last.err = "Unauthorized"
    /\ custody > vault.total_assets

\* the effect of transfer_authority and the authority check of the admin
\* calls that follow it; strict demands that the previous authority is then
\* refused even when it was named as its own successor
AuthorityHandover(strict) ==
        LET handovers == EventsOf(events, "AuthorityTransferred")
            n == Len(handovers)
        IN /\ (last'.op = "transfer_authority" /\ last'.caller = vault.authority)
                 => /\ last'.err = "Ok"
                    /\ vault' = [vault EXCEPT !.authority = last'.key]
                    /\ events' = Append(events,
                                        AuthorityTransferred(vault.authority, last'.key))
                    /\ UNCHANGED <<supply, assetBal, custody, shareAcct>>
           /\ (n > 0 /\ last'.op \in AdminOps) =>
                 /\ last'.caller = handovers[n].new_authority
                       => last'.err # "Unauthorized"
                 /\ (/\ last'.caller = handovers[n].previous_authority
                     /\ strict \/ handovers[n].previous_authority # handovers[n].new_authority)
                       => last'.err = "Unauthorized"

\* C15 as stated: transfer_authority by the current authority succeeds for any
\* new_authority (the current one included), paused or not, changes only the
\* authority, and from the next operation on every admin call signed by the
\* previous authority fails with Unauthorized while every admin call signed by
\* new_authority passes the authority check.
C15_AsStated == [][AuthorityHandover(TRUE)]_vars

\* C15, amended: as above, but the previous authority is refused only when
\* new_authority is someone else; an authority that names itself stays in
\* charge.
C15_AuthorityHandover == [][AuthorityHandover(FALSE)]_vars

\* on a paused vault, the authority that handed over to someone else is refused
C15_Witness ==
    LET handovers == EventsOf(events, "AuthorityTransferred")
    IN /\ Len(handovers) > 0
       /\ handovers[Len(handovers)].previous_authority # vault.authority
       /\ last.op \in AdminOps
       /\ last.caller = handovers[Len(handovers)].previous_authority
       /\ last.err = "Unauthorized"
       /\ vault.paused

\* C16: a sync signed by the authority sets cached total_assets to the balance
\* of the custody account, paused or not, and logs VaultSynced with the
\* previous and the new total; nothing else changes; a sync that follows a
\* sync with no deposit, mint, withdraw, redeem or external transfer between
\* leaves total_assets as it is.
C16_SyncReconciles ==
    [][ /\ (last'.op = "sync" /\ last'.caller = vault.authority) =>
              /\ last'.err = "Ok"
              /\ vault' = [vault EXCEPT !.total_assets = custody]
              /\ events' = Append(events, VaultSynced(vault.total_assets, custody))
              /\ UNCHANGED <<supply, assetBal, custody, shareAcct>>
        /\ (/\ Succeeded("sync")
            /\ events[Len(events)].type = "VaultSynced"
            /\ events[Len(events)].new_total = custody)
              => vault'.total_assets = vault.total_assets
      ]_vars

\* a paused vault is synced up to a donation
C16_Witness ==
    /\ last.op = "sync"
    /\ last.err = "Ok"
    /\ vault.paused
    /\ events[Len(events)].type = "VaultSynced"
    /\ events[Len(events)].previous_total < events[Len(events)].new_total
    /\ vault.total_assets = custody

\* C17: on an unpaused vault deposit(assets, _) fails with ZeroAmount when
\* assets = 0 and with DepositTooSmall when 0 < assets < MIN_DEPOSIT_AMOUNT
\* (1000), whatever the rate, the bound and the caller's funds, and changes
\* nothing; every successful deposit adds at least MIN_DEPOSIT_AMOUNT to cached
\* total_assets.
C17_DepositValidation ==
    [][ last'.op = "deposit" =>
          /\ MIN_DEPOSIT_AMOUNT = 1000
          /\ (~vault.paused /\ last'.a = 0) => last'.err = "ZeroAmount"
          /\ (~vault.paused /\ 0 < last'.a /\ last'.a < 1000)
                => last'.err = "DepositTooSmall"
          /\ last'.a < 1000 => UNCHANGED ledgerVars
          /\ last'.err = "Ok" => vault'.total_assets >= vault.total_assets + 1000
      ]_vars

\* a deposit below the minimum by a caller who could not have paid it and
\* whose bound could not have been met is refused as too small
C17_Witness ==
    /\ program = "svs2"
    /\ last.op = "deposit"
    /\ last.a = 999
    /\ last.b = 1000
    /\ last.err = "DepositTooSmall"
    /\ assetBal[last.caller] < last.a
    /\ ~vault.paused

\* C18: every instruction other than pause, unpause, transfer_authority and
\* sync requires the vault to be unpaused: on a paused vault configure_account
\* and apply_pending fail, and no holder's configuration, pending balance,
\* available balance or credit counter changes while the vault is paused.
C18_PauseBlocksHolderSetup ==
    [][ vault.paused =>
          /\ last'.op \in {"configure_account", "apply_pending"}
                => last'.err = "VaultPaused"
          /\ shareAcct' = shareAcct
      ]_vars

HolderOps == {"configure_account", "apply_pending"}

\* one step of the event log: append-only, nothing logged by a failed
\* instruction, exactly one event with the payload of the change made by a
\* successful one, except for the instructions in silent, which log nothing
EventLogStep(silent) ==
    LET op == last'.op
        user == last'.caller
        logged == Len(events') = Len(events) + 1
        e == events'[Len(events')]
    IN /\ Len(events') >= Len(events)
       /\ SubSeq(events', 1, Len(events)) = events
       /\ last.op = "initialize" =>
             events = IF last.err = "Ok" THEN <<VaultInitialized(last.caller)>> ELSE <<>>
       /\ (op \in UserOps \cup AdminOps \cup HolderOps /\ last'.err # "Ok")
             => events' = events
       /\ (op \in silent /\ last'.err = "Ok") => events' = events
       /\ (op \in (UserOps \cup AdminOps \cup HolderOps) \ silent /\ last'.err = "Ok") =>
             /\ logged
             /\ op \in {"deposit", "mint"} =>
                   e = DepositEvent(user, custody' - custody, supply' - supply)
             /\ op \in {"withdraw", "redeem"} =>
                   e = WithdrawEvent(user, custody - custody', supply - supply')
             /\ op \in {"pause", "unpause"} => e = VaultStatusChanged(vault'.paused)
             /\ op = "transfer_authority" =>
                   e = AuthorityTransferred(vault.authority, vault'.authority)
             /\ op = "sync" => e = VaultSynced(vault.total_assets, vault'.total_assets)

C20_MaxViews ==
    LET owned == shareAcct[last.caller].amount
        value == convert_to_assets(owned, vault.total_assets, supply,
                                   vault.decimals_offset, "Floor")
    IN /\ last.op \in {"max_deposit", "max_mint"} =>
             /\ last.err = "Ok"
             /\ last.assets = IF vault.paused THEN 0 ELSE U64_MAX
       /\ last.op = "max_redeem" =>
             /\ last.err = "Ok"
             /\ last.assets = IF vault.paused THEN 0 ELSE owned
       /\ (last.op = "max_withdraw" /\ vault.paused) =>
             /\ last.err = "Ok"
             /\ last.assets = 0
       /\ (last.op = "max_withdraw" /\ ~vault.paused /\ IsOk(value)) =>
             /\ last.err = "Ok"
             /\ last.assets <= value.val
             /\ last.assets <= vault.total_assets
             /\ last.assets \in {value.val, vault.total_assets}
             /\ Fits(owned, vault.total_assets + 1) =>
                   value.val = ExactFloor(owned, vault.total_assets + 1,
                                          supply + 10 ^ vault.decimals_offset)

\* a holder whose shares are worth less than the vault holds
C20_Witness ==
    /\ last.op = "max_withdraw"
    /\ ~vault.paused
    /\ last.assets > 0
    /\ last.assets < vault.total_assets
    /\ shareAcct[last.caller].amount = supply

\* C21: apply_pending called with an expected pending-balance credit counter
\* that differs from the account's outstanding pending credit count fails and
\* applies nothing (pending balance, available balance, decryptable available
\* balance and credit counter unchanged); with the matching counter it moves
\* the whole pending balance into the available balance and resets pending
\* to zero.
C21_StaleCounterRefused ==
    [][ last'.op = "apply_pending" =>
          LET acct == shareAcct[last'.caller]
              after == shareAcct'[last'.caller]
          IN IF last'.b # acct.pending_counter
             THEN last'.err # "Ok" /\ shareAcct' = shareAcct
             ELSE acct.configured =>
                    /\ last'.err = "Ok"
                    /\ after.available = acct.available + acct.pending
                    /\ after.pending = 0
      ]_vars

\* the shares of a holder in the three phases of their account
Phases(acct) == acct.amount + acct.pending + acct.available

\* C25: no confidential balance is silently dropped.  Shares folded into a
\* holder's pending balance leave it only by that holder's own successful
\* apply_pending, which adds all of them to the available balance; the
\* available balance shrinks only by the holder's own redeem or withdraw, by
\* the shares burnt; the balances of all holders add up to the supply; and
\* for a holder who keeps retrying apply_pending with the current counter,
\* a pending balance is eventually applied.
C25_NothingDropped ==
    /\ [][ \A user \in Users :
             LET acct == shareAcct[user]
                 after == shareAcct'[user]
             IN /\ supply' = Phases(shareAcct'["alice"]) + Phases(shareAcct'["bob"])
                /\ after.pending < acct.pending =>
                      /\ last'.op = "apply_pending"
                      /\ last'.caller = user
                      /\ last'.err = "Ok"
                      /\ after.pending = 0
                      /\ after.available = acct.available + acct.pending
                /\ after.available < acct.available =>
                      /\ last'.op \in {"redeem", "withdraw"}
                      /\ last'.caller = user
                      /\ last'.err = "Ok"
                      /\ after.available = acct.available - last'.shares
                      /\ after.pending = acct.pending
         ]_vars
    /\ \A user \in Users :
          (shareAcct[user].pending > 0) ~> (shareAcct[user].pending = 0)

\* alice applies what was folded in while bob's fold-in stays pending
C25_Witness ==
    /\ program = "svs2"
    /\ last.op = "apply_pending"
    /\ last.caller = "alice"
    /\ last.err = "Ok"
    /\ shareAcct["alice"].available > 0
    /\ shareAcct["alice"].pending = 0
    /\ shareAcct["bob"].pending > 0

\* C22: a confidential deposit or mint succeeds only for a configured share
\* account and fails, leaving the ledger as it was, for an unconfigured one;
\* on a configured account it returns what the plain instruction returns for
\* the same arguments (same rate, minimum and slippage checks), and all the
\* shares minted end in the pending balance: the public balance and the
\* available balance are unchanged, the pending balance grows by the shares
\* minted and the pending credit counter by one.
C22_ConfidentialDeposit ==
    [][ (program = "svs2" /\ last'.op \in {"deposit", "mint"}) =>
          LET user == last'.caller
              acct == shareAcct[user]
              after == shareAcct'[user]
              plain == IF last'.op = "deposit"
                       THEN svs1_deposit(Cur, user, last'.a, last'.b)
                       ELSE svs1_mint(Cur, user, last'.a, last'.b)
          IN /\ ~acct.configured => (last'.err # "Ok" /\ UNCHANGED ledgerVars)
             /\ acct.configured =>
                    /\ last'.err = plain.err
                    /\ last'.assets = plain.assets
                    /\ last'.shares = plain.shares
             /\ last'.err = "Ok" =>
                    /\ acct.configured
                    /\ after = [acct EXCEPT !.pending = @ + last'.shares,
                                            !.pending_counter = @ + 1]
                    /\ supply' = supply + last'.shares
                    /\ vault'.total_assets = vault.total_assets + last'.assets
      ]_vars

\* a deposit into a configured account that already holds a pending and an
\* available balance has been processed
C22_Witness ==
    /\ program = "svs2"
    /\ last.op = "deposit"
    /\ last.err = "Ok"
    /\ last.shares > 0
    /\ shareAcct[last.caller].amount = 0
    /\ shareAcct[last.caller].available > 0
    /\ shareAcct[last.caller].pending = last.shares
    /\ shareAcct[last.caller].pending_counter = 1

\* C23: a confidential redeem or withdraw succeeds only when both the
\* equality proof context and the range proof context hold a verified proof
\* for the amount; otherwise it fails and the ledger is as it was.  On
\* success the available balance and the supply decrease by the shares
\* burnt, the assets (Floor of the shares for a redeem) are paid out of
\* custody and cached total_assets decreases by the payout; the holder's
\* public balance, pending balance and pending credit counter are untouched.
C23_ConfidentialRedeem ==
    [][ (program = "svs2" /\ last'.op \in {"redeem", "withdraw"}) =>
          LET user == last'.caller
              acct == shareAcct[user]
              after == shareAcct'[user]
              quote == convert_to_assets(last'.a, vault.total_assets, supply,
                                         vault.decimals_offset, "Floor")
          IN /\ last'.key # "both" => (last'.err # "Ok" /\ UNCHANGED ledgerVars)
             /\ last'.err = "Ok" =>
                    /\ last'.key = "both"
                    /\ last'.shares <= acct.available
                    /\ after.available = acct.available - last'.shares
                    /\ after.amount = acct.amount
                    /\ after.pending = acct.pending
                    /\ after.pending_counter = acct.pending_counter
                    /\ supply' = supply - last'.shares
                    /\ assetBal'[user] = assetBal[user] + last'.assets
                    /\ custody' = custody - last'.assets
                    /\ vault'.total_assets = vault.total_assets - last'.assets
                    /\ last'.op = "redeem" =>
                          /\ last'.shares = last'.a
                          /\ IsOk(quote)
                          /\ last'.assets = quote.val
      ]_vars

\* a redeem of part of the available balance has been paid out
C23_Witness ==
    /\ program = "svs2"
    /\ last.op = "redeem"
    /\ last.err = "Ok"
    /\ last.key = "both"
    /\ last.assets > 0
    /\ shareAcct[last.caller].available > 0

\* C24: configure_account makes an unconfigured share account configured
\* (pending and available balance zero, pending credit counter 0) only when
\* the proof is given by a context account or at a non-zero instruction
\* offset; with no context account and offset zero it fails with
\* InvalidProof and nothing is kept, the reallocation of the account
\* included; with a context account the offset argument has no effect.
C24_ConfigureAccount ==
    [][ last'.op = "configure_account" =>
          LET user == last'.caller
              acct == shareAcct[user]
              after == shareAcct'[user]
              has_context == last'.b = 1
              proof_verified == last'.key = "verified"
          IN /\ (~has_context /\ last'.a = 0) =>
                    (last'.err = "InvalidProof" /\ UNCHANGED ledgerVars)
             /\ last'.err = "Ok" =>
                    /\ has_context \/ last'.a # 0
                    /\ proof_verified
                    /\ ~acct.configured
                    /\ after = [PlainShareAccount EXCEPT !.amount = acct.amount,
                                                         !.reallocated = TRUE,
                                                         !.configured = TRUE]
             /\ last'.err # "Ok" => UNCHANGED ledgerVars
             /\ has_context =>
                    \A offset \in ProofOffsets :
                        configure_account(Cur, user, 0, TRUE, offset, proof_verified)
                          = configure_account(Cur, user, 0, TRUE, last'.a, proof_verified)
      ]_vars

\* an account has been configured with a context account and offset zero
C24_Witness ==
    /\ last.op = "configure_account"
    /\ last.err = "Ok"
    /\ last.a = 0
    /\ last.b = 1
    /\ shareAcct[last.caller].configured
    /\ shareAcct[last.caller].reallocated
    /\ \E user \in Users : ~shareAcct[user].reallocated

\* C26: the credit counter detects lost updates.  An apply_pending whose
\* expected counter is no longer the account's pending credit counter,
\* because a fold-in was committed after the holder read the account, fails;
\* and whenever the stored decryptable available balance of an account
\* changes, it equals the available balance of the account.
C26_CounterDetectsLostUpdates ==
    [][ /\ last'.op = "apply_pending" =>
              (last'.b # shareAcct[last'.caller].pending_counter => last'.err # "Ok")
        /\ \A user \in Users :
              shareAcct'[user].decryptable # shareAcct[user].decryptable =>
                  shareAcct'[user].decryptable = shareAcct'[user].available
      ]_vars

\* the fields of the vault account written by initialize only
Immutable ==
    {"initialized", "asset_mint", "shares_mint", "asset_vault", "decimals_offset",
     "bump", "vault_id", "auditor_elgamal_pubkey"}

\* C27: initialize fails with InvalidAssetDecimals when the asset has more
\* than 9 decimals and creates nothing; otherwise it creates the vault with
\* decimals_offset = 9 - asset_decimals, total_assets = 0, paused = false and
\* the creator as authority.  No instruction on the created vault changes
\* decimals_offset, asset_mint, shares_mint, asset_vault, vault_id, the
\* auditor key or the bump: only authority, paused and total_assets change.
C27_InitializeAndImmutables ==
    [][ /\ last.op = "initialize" =>
              IF last.a > 9
              THEN last.err = "InvalidAssetDecimals" /\ vault = NoVault /\ events = <<>>
              ELSE /\ last.err = "Ok"
                   /\ vault.initialized
                   /\ vault.decimals_offset = 9 - last.a
                   /\ vault.total_assets = 0
                   /\ vault.paused = FALSE
                   /\ vault.authority = last.caller
        /\ \A field \in Immutable : vault'[field] = vault[field]
      ]_vars

\* the three mutable fields have all changed on a confidential vault
C27_Witness ==
    /\ program = "svs2"
    /\ last.op = "pause"
    /\ last.err = "Ok"
    /\ vault.paused
    /\ vault.authority # Creator
    /\ vault.total_assets > 0
    /\ vault.decimals_offset = 3
    /\ vault.vault_id = VaultId
    /\ vault.auditor_elgamal_pubkey = Auditor("svs2")
    /\ \E user \in Users : shareAcct[user].available > 0


\* ------------------------------------------------------------------------
\* Claims about the proof backend
\* ------------------------------------------------------------------------
\* a request has just gone through the middleware and its handler
Handled == service.request.endpoint = "none" /\ service'.request.endpoint # "none"

\* the seconds between two instants
Distance(a, b) == IF a >= b THEN a - b ELSE b - a

\* the message the request signature of a request has to be over
SignedMessage(req) ==
    IF req.endpoint = "range" THEN construct_range_request_message(req.timestamp)
    ELSE construct_request_message(req.timestamp, req.token_account)

\* the fields a handler parses before it verifies the request signature
Parsed(req) ==
    /\ req.wallet_pubkey # "invalid"
    /\ req.endpoint # "range" => req.token_account # "invalid"
    /\ req.endpoint = "equality" => req.current_ciphertext # "invalid" /\ req.amount # "invalid"

\* C28: a request that passed the API key check and whose timestamp is more
\* than the tolerance (300 s, the bound itself allowed) away from the clock of
\* the backend, in either direction, is rejected with RequestExpired; one
\* within the tolerance whose request signature is not the wallet's signature
\* of the message of its endpoint is rejected with InvalidSignature; in both
\* cases no key is derived and no proof is generated.
C28_OnlyAuthenticatedRequests ==
    [][Handled =>
         LET req == service'.request
             res == service'.result
             expired == Distance(service.now, req.timestamp)
                          > service.config.timestamp_tolerance_secs
             authentic == req.request_signature = Sign(req.wallet_pubkey, SignedMessage(req))
         IN  res.err # "Unauthorized" =>
               /\ expired => res = Rejected("RequestExpired")
               /\ (~expired /\ Parsed(req) /\ ~authentic) => res = Rejected("InvalidSignature")
               /\ (expired \/ ~authentic) => res.keys = {} /\ res.proofs = {}]_vars

\* the request reaches the generation of the range proof
ReachesRangeProof(req, res) ==
    /\ req.endpoint = "range"
    /\ res.err \notin {"Unauthorized", "RequestExpired", "Panic", "InvalidPubkey",
                       "InvalidSignature"}
    /\ \A i \in 1..Len(req.amounts) : req.amounts[i] # "invalid"
    /\ \A i \in 1..Len(req.commitment_blindings) : req.commitment_blindings[i] # "invalid"

\* C29: a range proof is generated only for lists of amounts and blindings of
\* the same length, and that length one of 1, 2, 4 and 8; a request with any
\* other lists that reaches the generation is rejected with BadRequest and
\* gets no proof.
C29_RangeBatchSizes ==
    [][(Handled /\ service'.request.endpoint = "range") =>
         LET req == service'.request
             res == service'.result
             batch == /\ Len(req.amounts) = Len(req.commitment_blindings)
                      /\ Len(req.amounts) \in {1, 2, 4, 8}
         IN  /\ res.proofs # {} => batch
             /\ (ReachesRangeProof(req, res) /\ ~batch) => res = Rejected("BadRequest")]_vars

C29_Witness ==
    /\ service.request.endpoint = "range"
    /\ service.result.proofs # {}
    /\ Len(service.request.amounts) = 8

\* a range request with lists of equal length 3 was refused
C29_WitnessRefused ==
    /\ service.request.endpoint = "range"
    /\ service.result = Rejected("BadRequest")
    /\ Len(service.request.amounts) = 3
    /\ Len(service.request.commitment_blindings) = 3

\* C30: the keypair derived for a request is the keypair derived earlier for
\* the same purpose-bound signature and token account, whatever the
\* timestamp, the request signature and the endpoint of the two requests;
\* derivations from different signatures have different seeds.
C30_KeyDerivationDeterministic ==
    \A keypair \in service.result.keys, d \in service.derived :
        /\ (/\ d.signature = service.request.elgamal_signature
            /\ d.token_account = service.request.token_account) => d.keypair = keypair
        /\ d.signature # service.request.elgamal_signature
             => d.keypair.secret # keypair.secret

\* the key of an earlier request is derived again for a request with another
\* timestamp
C30_Witness ==
    /\ service.result.keys # {}
    /\ \E d \in service.derived :
          /\ d.signature = service.request.elgamal_signature
          /\ d.token_account = service.request.token_account
          /\ d.timestamp # service.request.timestamp
          /\ d.keypair \in service.result.keys

\* a key is derived from another signature than the one before
C30_WitnessDifferent ==
    /\ service.result.keys # {}
    /\ \E d \in service.derived :
          /\ d.signature # service.request.elgamal_signature
          /\ d.token_account = service.request.token_account


\* ------------------------------------------------------------------------
\* Claims on runs of entries and exits (checked under SpecFlows)
\* ------------------------------------------------------------------------
\* 10^decimals_offset of the vault
Offset == Pow10(vault.decimals_offset)

\* C31: after any run of deposits and redeems (and of the other instructions
\* of SpecFlows) from an empty vault, the share supply is at most
\* total_assets * 10^decimals_offset + 10^decimals_offset + 1000.
C31_SupplyBound ==
    vault.initialized => supply <= vault.total_assets * Offset + Offset + 1000

\* a redeem has followed a deposit of 1001 assets and shares are left
C31_Witness ==
    /\ last.op = "redeem"
    /\ last.err = "Ok"
    /\ supply > 0
    /\ \E i \in 1..Len(events) : events[i].type = "Deposit" /\ events[i].assets = 1001


\* no donation has been taken into total_assets by a sync
NothingDonated ==
    \A i \in 1..Len(events) :
        events[i].type = "VaultSynced" => events[i].new_total = events[i].previous_total

\* C32: in a vault that has seen entries and exits only, a successful deposit
\* of at least the minimum amount mints more than 0 shares, and the depositor
\* holds that many shares more than before.
C32_PositiveDepositPositiveShares ==
    [][(Succeeded("deposit") /\ last'.a >= MIN_DEPOSIT_AMOUNT /\ NothingDonated) =>
         /\ last'.shares > 0
         /\ supply' = supply + last'.shares
         /\ Held(shareAcct'[last'.caller]) = Held(shareAcct[last'.caller]) + last'.shares]_vars

\* a deposit succeeded after an exit had moved the rate off its initial value
C32_Witness ==
    /\ last.op = "deposit"
    /\ last.err = "Ok"
    /\ last.shares > 0
    /\ NothingDonated
    /\ \E i \in 1..Len(events) : events[i].type = "Withdraw"
    /\ (vault.total_assets + 1) * Offset # supply + Offset


\* (ta2 + 1) / (ts2 + 10^d) >= (ta1 + 1) / (ts1 + 10^d), compared through the
\* quotient of the cross product
PriceAtLeast(ta2, ts2, ta1, ts1, d) ==
    LET cross == WideProduct(ta2 + 1, ts1 + Pow10(d), ts2 + Pow10(d))
    IN cross.big \/ cross.q >= ta1 + 1

\* what the shares of a holder are worth at the rate of a ledger state
Worth(user, accts, ta, ts, d) == convert_to_assets(Held(accts[user]), ta, ts, d, "Floor")

\* C33: across every successful deposit, mint, withdraw, redeem and sync the
\* ratio (total_assets + 1) / (supply + 10^decimals_offset) does not decrease,
\* and the shares of every holder other than the caller are worth no less
\* after the instruction than before.
C33_SharePriceNeverDecreases ==
    [][(last'.op \in UserOps \cup {"sync"} /\ last'.err = "Ok") =>
         /\ PriceAtLeast(vault'.total_assets, supply', vault.total_assets, supply,
                         vault.decimals_offset)
         /\ \A user \in Users \ {last'.caller} :
               LET before == Worth(user, shareAcct, vault.total_assets, supply,
                                   vault.decimals_offset)
                   after == Worth(user, shareAcct', vault'.total_assets, supply',
                                  vault.decimals_offset)
               IN /\ IsOk(before)
                  /\ IsOk(after)
                  /\ after.val >= before.val]_vars

\* bob has redeemed at a rate above the initial one while alice holds shares
C33_Witness ==
    /\ last.op = "redeem"
    /\ last.caller = "bob"
    /\ last.err = "Ok"
    /\ Held(shareAcct["alice"]) > 0
    /\ (vault.total_assets + 1) * Offset > supply + Offset


\* what the custody account holds beyond the cached total
Unsynced == custody - vault.total_assets

\* C34: cached total_assets never exceeds the balance of the custody account;
\* the difference grows by each donation, is cleared by a sync and is left as
\* it is by every other instruction, so it is the sum of the donations since
\* the last sync; an exit fails with the token program's insufficient-funds
\* error only where the caller lacks the shares to burn, never for lack of
\* funds in the custody account.
C34_CustodyCoversTotalAssets ==
    [][last'.op # "none" =>
         /\ vault.total_assets <= custody
         /\ vault'.total_assets <= custody'
         /\ Unsynced' = IF Succeeded("donate") THEN Unsynced + last'.a
                        ELSE IF Succeeded("sync") THEN 0
                        ELSE Unsynced
         /\ (last'.op \in {"withdraw", "redeem"} /\ last'.err = "TokenInsufficientFunds") =>
               /\ program = "svs1"
               /\ last'.op = "withdraw"
               /\ LET shares == convert_to_shares(last'.a, vault.total_assets, supply,
                                                  vault.decimals_offset, "Ceiling")
                  IN IsOk(shares) /\ shares.val > shareAcct[last'.caller].amount]_vars

\* assets are paid out while a donation is waiting for the next sync
C34_Witness ==
    /\ last.op = "redeem"
    /\ last.err = "Ok"
    /\ last.assets > 0
    /\ Unsynced = 500

\* a sync has taken a donation into total_assets
C34_WitnessSynced ==
    /\ last.op = "sync"
    /\ last.err = "Ok"
    /\ Unsynced = 0
    /\ events[Len(events)].new_total = events[Len(events)].previous_total + 500


\* amounts of shares up to the whole supply: what each holder owns and the
\* supply itself
UpToSupply(total, accts) ==
    {shares \in {total} \cup {Held(accts[user]) : user \in Users} :
        1 <= shares /\ shares <= total}

\* C35: in every state reached by deposit, mint, withdraw, redeem and syncs of
\* donations, the payout computed for any amount of shares up to the whole
\* supply is at most cached total_assets; a redeem by a holder who has the
\* shares never fails with InsufficientAssets nor with an underflow of
\* total_assets, and a redeem that succeeds leaves total_assets lower by
\* exactly its payout.
C35_RedeemWithinTotalAssets ==
    [][last'.op # "none" =>
         /\ \A shares \in UpToSupply(supply', shareAcct') :
               LET assets == convert_to_assets(shares, vault'.total_assets, supply',
                                               vault'.decimals_offset, "Floor")
               IN IsOk(assets) /\ assets.val <= vault'.total_assets
         /\ (last'.op = "redeem" /\ Redeemable(last'.caller) >= last'.a) =>
               last'.err \notin {"InsufficientAssets", "MathOverflow"}
         /\ Succeeded("redeem") =>
               /\ last'.assets <= vault.total_assets
               /\ vault'.total_assets = vault.total_assets - last'.assets]_vars

\* the last shares outstanding are redeemed and the vault keeps a remainder
C35_Witness ==
    /\ last.op = "redeem"
    /\ last.err = "Ok"
    /\ last.shares > 1
    /\ supply = 0
    /\ vault.total_assets > 0


\* ------------------------------------------------------------------------
\* Claims on the three phases of the shares of the confidential vault
\* (checked under SpecConfidential)
\* ------------------------------------------------------------------------
\* the shares of all holders, in the three phases of their accounts
AllPhases(accts) == Phases(accts["alice"]) + Phases(accts["bob"])

\* C36: shares are conserved across the three phases.  Before and after
\* every step the public, pending and available balances of all holders add
\* up to the supply of the shares mint; the supply grows only in a successful
\* deposit or mint, by the shares minted, and shrinks only in a successful
\* withdraw or redeem, by the shares burnt; apply_pending and
\* configure_account change neither the supply nor what any holder holds,
\* and apply_pending leaves the account of every other holder as it was.
C36_SharesConserved ==
    [][ /\ supply = AllPhases(shareAcct)
        /\ supply' = AllPhases(shareAcct')
        /\ supply' > supply =>
              /\ last'.op \in {"deposit", "mint"}
              /\ last'.err = "Ok"
              /\ supply' = supply + last'.shares
              /\ Phases(shareAcct'[last'.caller]) =
                    Phases(shareAcct[last'.caller]) + last'.shares
        /\ supply' < supply =>
              /\ last'.op \in {"withdraw", "redeem"}
              /\ last'.err = "Ok"
              /\ supply' = supply - last'.shares
              /\ Phases(shareAcct'[last'.caller]) =
                    Phases(shareAcct[last'.caller]) - last'.shares
        /\ (Succeeded("deposit") \/ Succeeded("mint")) =>
              supply' = supply + last'.shares /\ last'.shares > 0
        /\ (Succeeded("withdraw") \/ Succeeded("redeem")) =>
              supply' = supply - last'.shares
        /\ last'.op \in {"apply_pending", "configure_account"} =>
              /\ supply' = supply
              /\ \A user \in Users :
                    /\ Phases(shareAcct'[user]) = Phases(shareAcct[user])
                    /\ (last'.op = "apply_pending" /\ user # last'.caller) =>
                          shareAcct'[user] = shareAcct[user]
      ]_vars

\* shares of a mint are pending while shares applied earlier are available:
\* the supply is held in two phases at once
C36_Witness ==
    /\ program = "svs2"
    /\ last.op = "mint"
    /\ last.err = "Ok"
    /\ last.shares > 0
    /\ shareAcct[last.caller].pending >= last.shares
    /\ \E user \in Users : shareAcct[user].available > 0
    /\ supply = AllPhases(shareAcct)


\* the shares an exit of the confidential vault asks the holder's account for
Requested(op, amount) ==
    IF op = "redeem" THEN amount
    ELSE LET shares == convert_to_shares(amount, vault.total_assets, supply,
                                         vault.decimals_offset, "Ceiling")
         IN IF IsOk(shares) THEN shares.val ELSE U64_MAX

\* C37: shares of a confidential deposit or mint cannot be used before they
\* are applied.  A deposit or mint adds its shares to the pending balance and
\* leaves the available balance alone; a withdraw or redeem that asks for
\* more shares than the available balance holds fails and changes nothing,
\* also when the pending balance holds enough; the available balance of a
\* holder grows only in that holder's own successful apply_pending, made
\* after a deposit or mint, by the shares that were pending; and a redeem or
\* withdraw that succeeds takes its shares from the available balance, which
\* covers them, and leaves the pending balance as it was.
C37_PendingSharesUnusable ==
    [][ /\ (Succeeded("deposit") \/ Succeeded("mint")) =>
              LET acct == shareAcct[last'.caller]
                  after == shareAcct'[last'.caller]
              IN /\ after.pending = acct.pending + last'.shares
                 /\ after.available = acct.available
                 /\ after.amount = acct.amount
        /\ (/\ last'.op \in {"redeem", "withdraw"}
            /\ last'.a > 0
            /\ shareAcct[last'.caller].available < Requested(last'.op, last'.a)) =>
              /\ last'.err # "Ok"
              /\ UNCHANGED ledgerVars
        /\ \A user \in Users :
              shareAcct'[user].available > shareAcct[user].available =>
                 /\ Succeeded("apply_pending")
                 /\ last'.caller = user
                 /\ shareAcct[user].pending_counter > 0
                 /\ shareAcct'[user].available =
                       shareAcct[user].available + shareAcct[user].pending
        /\ (Succeeded("redeem") \/ Succeeded("withdraw")) =>
              LET acct == shareAcct[last'.caller]
                  after == shareAcct'[last'.caller]
              IN /\ last'.shares <= acct.available
                 /\ after.available = acct.available - last'.shares
                 /\ after.pending = acct.pending
      ]_vars

\* a redeem of shares that are still pending has been refused although both
\* proofs were given
C37_Witness ==
    /\ program = "svs2"
    /\ last.op = "redeem"
    /\ last.key = "both"
    /\ last.err = "TokenInvalidProof"
    /\ last.a > 0
    /\ shareAcct[last.caller].available < last.a
    /\ shareAcct[last.caller].pending >= last.a

\* a redeem of all the shares that the holder had applied has been paid out
C37_WitnessApplied ==
    /\ program = "svs2"
    /\ last.op = "redeem"
    /\ last.err = "Ok"
    /\ last.shares > 0
    /\ shareAcct[last.caller].available = 0
    /\ shareAcct[last.caller].pending = 0


\* ------------------------------------------------------------------------
\* Claim on the preview views (checked under SpecPreviews)
\* ------------------------------------------------------------------------
PreviewOps == {"preview_deposit", "preview_mint", "preview_withdraw", "preview_redeem"}

\* the step is the instruction that the view before it previewed
Follows(view, op) == last.op = view /\ last.err = "Ok" /\ Succeeded(op)

\* C38: previews agree with execution.  The value returned by preview_deposit
\* is the number of shares minted by the deposit of the same assets executed
\* next; the value of preview_mint is the assets charged by the mint of the
\* same shares, the value of preview_withdraw the shares burnt by the
\* withdrawal of the same assets, the value of preview_redeem the assets paid
\* by the redeem of the same shares, whenever the instruction succeeds; an
\* instruction that succeeds had a preview that succeeded; and a view leaves
\* the vault, the mint, every token account and the event log as they were.
C38_PreviewsAgreeWithExecution ==
    [][ /\ Follows("preview_deposit", "deposit") =>
              /\ last'.a = last.a
              /\ last'.shares = last.shares
              /\ supply' = supply + last.shares
        /\ Follows("preview_mint", "mint") =>
              /\ last'.shares = last.a
              /\ last'.assets = last.assets
              /\ vault'.total_assets = vault.total_assets + last.assets
        /\ Follows("preview_withdraw", "withdraw") =>
              /\ last'.assets = last.a
              /\ last'.shares = last.shares
              /\ supply' = supply - last.shares
        /\ Follows("preview_redeem", "redeem") =>
              /\ last'.shares = last.a
              /\ last'.assets = last.assets
              /\ vault'.total_assets = vault.total_assets - last.assets
        /\ (last.op \in PreviewOps /\ last'.op \notin PreviewOps /\ last'.op # "none"
            /\ last'.err = "Ok") => last.err = "Ok"
        /\ (last'.op \in PreviewOps /\ last.op = "none") => UNCHANGED ledgerVars
      ]_vars

\* a deposit at a rate that is not a whole number of shares per asset has
\* minted the shares that the view returned before it
C38_Witness ==
    /\ last.op = "deposit"
    /\ last.err = "Ok"
    /\ last.shares > 0
    /\ last.shares # last.a * Pow10(vault.decimals_offset)
    /\ \E T \in {[Cur EXCEPT !.supply = supply - last.shares,
                             !.vault.total_assets = vault.total_assets - last.assets]} :
          preview_deposit(T, last.a) = Ok(last.shares)

\* a redeem has paid the assets that the view returned before it
C38_WitnessRedeem ==
    /\ last.op = "redeem"
    /\ last.err = "Ok"
    /\ last.assets > 0
    /\ last.assets * Pow10(vault.decimals_offset) # last.shares


\* ------------------------------------------------------------------------
\* Claims on mint (checked under SpecFlows and Spec)
\* ------------------------------------------------------------------------
\* the smallest share amount and one more than the supply
MintedShares(total) == {1, total + 1}

\* C39: no shares are minted for free.  In every state of a run, for every
\* positive number of shares whose conversion succeeds, the assets charged
\* with Ceiling rounding are at least 1; and every mint that succeeds charges
\* at least 1 asset, takes it from the caller into custody and leaves cached
\* total_assets higher by what it charged.
C39_MintNeverFree ==
    [][ /\ last'.op # "none" =>
              \A shares \in MintedShares(supply') :
                 LET assets == convert_to_assets(shares, vault'.total_assets, supply',
                                                 vault'.decimals_offset, "Ceiling")
                 IN IsOk(assets) => assets.val >= 1
        /\ Succeeded("mint") =>
              /\ last'.shares = last'.a
              /\ last'.shares > 0
              /\ last'.assets >= 1
              /\ vault'.total_assets = vault.total_assets + last'.assets
              /\ vault'.total_assets > vault.total_assets
              /\ custody' = custody + last'.assets
              /\ assetBal'[last'.caller] = assetBal[last'.caller] - last'.assets
      ]_vars

\* one share minted where a share is worth less than one asset: one whole
\* asset has been charged
C39_Witness ==
    /\ last.op = "mint"
    /\ last.err = "Ok"
    /\ last.shares = 1
    /\ last.assets = 1
    /\ vault.decimals_offset > 0
    /\ vault.total_assets > 1


\* the assets a mint of the shares charges in the state before the step
Charged(shares) ==
    convert_to_assets(shares, vault.total_assets, supply, vault.decimals_offset,
                      "Ceiling")

\* C40: mint validates its input as deposit does.  On the plain vault, whose
\* mint handler is in the source, a mint of zero shares fails with
\* ZeroAmount; a mint on an unpaused vault whose charge is below
\* MIN_DEPOSIT_AMOUNT fails with DepositTooSmall; and every deposit or mint
\* that succeeds adds at least MIN_DEPOSIT_AMOUNT to cached total_assets.
C40_MintValidation ==
    [][ (program = "svs1" /\ last'.op \in {"mint", "deposit"}) =>
          /\ (last'.op = "mint" /\ last'.a = 0 /\ ~vault.paused) =>
                last'.err = "ZeroAmount"
          /\ (/\ last'.op = "mint"
              /\ last'.a > 0
              /\ ~vault.paused
              /\ IsOk(Charged(last'.a))
              /\ Charged(last'.a).val < MIN_DEPOSIT_AMOUNT) =>
                last'.err = "DepositTooSmall"
          /\ last'.err = "Ok" =>
                vault'.total_assets >= vault.total_assets + MIN_DEPOSIT_AMOUNT
      ]_vars

====
